---- MODULE Spec2Model ----
(***************************************************************************)
(* MaskNGO rental lifecycle (INTEGRADORA/controllers): the inventory       *)
(* ledger (InventarioController), the rental engine (RentaController) and  *)
(* the overdue sweep, run against the MySQL store through ConexionDB.      *)
(*                                                                         *)
(* Every ConexionDB call (ejecutar_query / ejecutar_insert /               *)
(* ejecutar_update) is one step of the calling controller: ConexionDB      *)
(* commits each statement on its own and turns a mysql error into a None   *)
(* return value.  Money is counted in whole currency units, time in ticks  *)
(* of 1/TicksPorDia day.                                                   *)
(***************************************************************************)
EXTENDS Integers, Sequences, FiniteSets, TLC

\* ---------------------------------------------------------------- bounds
MaxStock    == 2    \* largest Stock of an inventory row
MaxCant     == 2    \* largest cantidad passed to an operation
MaxLineas   == 2    \* longest detalles list passed to registrar_renta
MaxDias     == 1    \* largest dias_renta passed to registrar_renta
MaxRentas   == 2    \* rows of RENTAS
MaxVentas   == 2    \* rows of VENTAS
MaxNow      == 4    \* last clock tick
MaxFallos   == 1    \* store failures injected in one behaviour
MaxOps      == 2    \* calls started in one concurrent behaviour
MaxDiasLargo == 3   \* largest dias_renta where one rental is followed for long
MaxNowLargo  == 10  \* last clock tick there

\* ------------------------------------------------------ program constants
PenalizacionDefecto == 50

\* datetime granularity: timedelta.days counts whole days of TicksPorDia ticks
TicksPorDia == 2

Procs        == {1, 2}
Codigos      == {"A", "B"}
CodigoAjeno  == "X"
Clientes     == {1}
Usuarios     == {1}
IdAjeno      == MaxRentas + 1
SinFecha     == -1
Ninguno      == -1

VARIABLES
    inv,               \* INVENTARIO: Codigo_Barras -> row
    rentas,            \* RENTAS: sequence of rows, Id_Renta = position
    detalles,          \* DETALLE_RENTAS: sequence of rows in insertion order
    config,            \* CONFIGURACION.Valor_Config of PENALIZACIONDIA, or Ninguno
    ventas,            \* VENTAS: sequence of rows, Id_Venta = position
    detalle_ventas,    \* DETALLE_VENTAS: sequence of rows in insertion order
    devuelto,          \* units each sale has had put back into stock so far
    now,               \* datetime.now()
    penalizacion_dia,  \* RentaController.penalizacion_dia of each controller
    pc,                \* position of each controller inside its current call
    loc,               \* locals of the current call
    res,               \* value returned by the call that has just finished
    snap,              \* the store as it was when the current call started
    ultimo,            \* the call that finished last, while nothing happened since
    fallos,            \* store failures that may still be injected
    ops                \* concurrent calls that may still be started

store == <<inv, rentas, detalles, config>>
vars  == <<inv, rentas, detalles, config, ventas, detalle_ventas, devuelto, now,
           penalizacion_dia,
           pc, loc, res, snap, ultimo, fallos, ops>>

\* ------------------------------------------------------------- the store
NoDisfraz ==
    [existe |-> FALSE, Stock |-> 0, Disponible |-> 0, Estado |-> "Inactivo",
     Precio_Renta |-> 0, Precio_Venta |-> 0]

NoRenta ==
    [existe |-> FALSE, Id_Cliente |-> 0, Id_Usuario |-> 0, Fecha_Renta |-> 0,
     Fecha_Devolucion |-> 0, Fecha_Devuelto |-> SinFecha, Penalizacion |-> 0,
     Dias_Renta |-> 0, Total |-> 0, Deposito |-> 0, Estado |-> "Ninguno"]

\* The statements ConexionDB may fail on in the current state.
Oks == IF fallos > 0 THEN {TRUE, FALSE} ELSE {TRUE}

Gasto(ok) == IF ok THEN fallos ELSE fallos - 1

\* ConexionDB.ejecutar_query("SELECT * FROM INVENTARIO WHERE Codigo_Barras = %s")
\* decoded by Disfraz.from_db_row; None when the row is absent or the query failed.
\* A row whose prices or counters are negative makes the Disfraz constructor
\* raise, which buscar_por_codigo also turns into None.
DisfrazValido(row) ==
    /\ row.Precio_Venta >= 0
    /\ row.Precio_Renta >= 0
    /\ row.Stock >= 0
    /\ row.Disponible >= 0

buscar_por_codigo(codigo, ok) ==
    IF ok /\ codigo \in DOMAIN inv /\ inv[codigo].existe
          /\ DisfrazValido(inv[codigo])
    THEN inv[codigo]
    ELSE NoDisfraz

esta_activo(disfraz) == disfraz.Estado = "Activo"

\* UPDATE INVENTARIO SET Disponible = %s WHERE Codigo_Barras = %s
\* cursor.rowcount counts the rows whose value changed; None (here Ninguno)
\* when the statement failed.
FilasDisponible(codigo, nuevo, ok) ==
    IF ~ok THEN Ninguno
    ELSE IF codigo \in DOMAIN inv /\ inv[codigo].existe
            /\ inv[codigo].Disponible # nuevo
         THEN 1 ELSE 0

EscribirDisponible(codigo, nuevo, ok) ==
    IF ok /\ codigo \in DOMAIN inv /\ inv[codigo].existe
    THEN [inv EXCEPT ![codigo].Disponible = nuevo]
    ELSE inv

\* ------------------------------------------------------ inventory ledger
\* An availability check that does not compare the quantity with Disponible.
verificar_disponibilidad_sin_stock(disfraz, cantidad) ==
    IF ~disfraz.existe
    THEN [hay |-> FALSE, msg |-> "NoEncontrado", disponible |-> 0]
    ELSE IF ~esta_activo(disfraz)
    THEN [hay |-> FALSE, msg |-> "Inactivo", disponible |-> 0]
    ELSE IF cantidad <= 0
    THEN [hay |-> FALSE, msg |-> "CantidadInvalida", disponible |-> disfraz.Disponible]
    ELSE [hay |-> TRUE, msg |-> "OK", disponible |-> disfraz.Disponible]

\* An availability check that does not look at Estado.
verificar_disponibilidad_sin_estado(disfraz, cantidad) ==
    IF ~disfraz.existe
    THEN [hay |-> FALSE, msg |-> "NoEncontrado", disponible |-> 0]
    ELSE IF cantidad <= 0
    THEN [hay |-> FALSE, msg |-> "CantidadInvalida", disponible |-> disfraz.Disponible]
    ELSE IF disfraz.Disponible < cantidad
    THEN [hay |-> FALSE, msg |-> "StockInsuficiente", disponible |-> disfraz.Disponible]
    ELSE [hay |-> TRUE, msg |-> "OK", disponible |-> disfraz.Disponible]

verificar_disponibilidad(disfraz, cantidad) ==
    IF ~disfraz.existe
    THEN [hay |-> FALSE, msg |-> "NoEncontrado", disponible |-> 0]
    ELSE IF ~esta_activo(disfraz)
    THEN [hay |-> FALSE, msg |-> "Inactivo", disponible |-> 0]
    ELSE IF cantidad <= 0
    THEN [hay |-> FALSE, msg |-> "CantidadInvalida", disponible |-> disfraz.Disponible]
    ELSE IF disfraz.Disponible < cantidad
    THEN [hay |-> FALSE, msg |-> "StockInsuficiente", disponible |-> disfraz.Disponible]
    ELSE [hay |-> TRUE, msg |-> "OK", disponible |-> disfraz.Disponible]

\* The checks of descontar_stock without the one on Estado.
descontar_chequeo_sin_estado(disfraz, cantidad) ==
    IF ~disfraz.existe THEN "NoEncontrado"
    ELSE IF cantidad <= 0 THEN "CantidadInvalida"
    ELSE IF disfraz.Disponible < cantidad THEN "StockInsuficiente"
    ELSE "OK"

\* The checks of descontar_stock before its UPDATE.
descontar_chequeo(disfraz, cantidad) ==
    IF ~disfraz.existe THEN "NoEncontrado"
    ELSE IF ~esta_activo(disfraz) THEN "Inactivo"
    ELSE IF cantidad <= 0 THEN "CantidadInvalida"
    ELSE IF disfraz.Disponible < cantidad THEN "StockInsuficiente"
    ELSE "OK"

\* aumentar_stock without its ceiling at Stock.
aumentar_chequeo_sin_tope(disfraz, cantidad) ==
    IF ~disfraz.existe THEN "NoEncontrado"
    ELSE IF cantidad <= 0 THEN "CantidadInvalida"
    ELSE "OK"

\* The checks of aumentar_stock with an added one on Estado.
aumentar_chequeo_solo_activos(disfraz, cantidad) ==
    IF ~disfraz.existe THEN "NoEncontrado"
    ELSE IF ~esta_activo(disfraz) THEN "Inactivo"
    ELSE IF cantidad <= 0 THEN "CantidadInvalida"
    ELSE IF disfraz.Disponible + cantidad > disfraz.Stock THEN "SobreStock"
    ELSE "OK"

\* The checks of aumentar_stock before its UPDATE.
aumentar_chequeo(disfraz, cantidad) ==
    IF ~disfraz.existe THEN "NoEncontrado"
    ELSE IF cantidad <= 0 THEN "CantidadInvalida"
    ELSE IF disfraz.Disponible + cantidad > disfraz.Stock THEN "SobreStock"
    ELSE "OK"

\* ------------------------------------------------- calls and their locals
LocIni ==
    [op |-> "", id_cliente |-> 0, id_usuario |-> 0, detalles |-> <<>>,
     dias_renta |-> 0, id_renta |-> 0, codigo |-> "", cantidad |-> 0,
     i |-> 0, ahora |-> 0, total |-> 0, deposito |-> 0, nuevo_id |-> 0,
     precio_renta |-> 0, nuevo_disponible |-> 0, dets |-> <<>>,
     renta |-> NoRenta,
     id_venta |-> 0,          \* the sale asked of cancelar_venta
     devueltas |-> 0,         \* units cancelar_venta has put back so far
     con_precio |-> FALSE,    \* editar_disfraz was given a rental price
     con_stock |-> FALSE,     \* editar_disfraz was given a stock
     stock |-> 0,             \* the stock asked of editar_disfraz
     monto |-> 0,             \* the rate asked of actualizar_penalizacion_dia
     movimiento |-> FALSE,    \* what eliminar_disfraz counted as movement
     fallo_bd |-> FALSE,      \* a store statement failed inside this call
     fallo_stock |-> FALSE,   \* a nested descontar/aumentar returned False
     fallo_upd |-> FALSE]     \* the UPDATE RENTAS of devolver_renta failed

ResIni ==
    [op |-> "", ok |-> FALSE, msg |-> "", id |-> Ninguno, filas |-> 0,
     dias_retraso |-> 0, penalizacion |-> 0, deposito_devuelto |-> 0,
     estado |-> "",   \* the Estado quoted in the message, if any
     disponible |-> 0,   \* the Disponible verificar_disponibilidad reports
     ahora |-> 0]     \* the instant the call read from the clock

\* What is remembered of the last finished call: a sweep (with its row count)
\* until the clock moves, a successful registration (with the rental it made
\* and the inventory it started from) until the next call.
UltimoIni == [op |-> "", id |-> 0, filas |-> 0, inv |-> <<>>]

SnapIni == [inv |-> <<>>, rentas |-> <<>>, detalles |-> <<>>, config |-> Ninguno,
            ventas |-> <<>>,
            ultimo |-> UltimoIni]

Foto == [inv |-> inv, rentas |-> rentas, detalles |-> detalles, config |-> config,
         ventas |-> ventas,
         ultimo |-> ultimo]

Resultado(op, ok, msg, ahora) ==
    [ResIni EXCEPT !.op = op, !.ok = ok, !.msg = msg, !.ahora = ahora]

\* A controller may start a call: alone in a sequential run ("sec"), within
\* the budget of calls in a concurrent one ("conc"), and, where the store may
\* fail ("fallos"), until a failure has been injected: the run then ends with
\* the call that met the failure.  A scheduled job ("tarea") starts whenever
\* its own controller is free.
PuedeLlamar(p, modo) ==
    /\ pc[p] = "idle"
    /\ CASE modo = "conc"   -> ops > 0
         [] modo = "tarea"  -> TRUE
         [] modo = "fallos" -> /\ \A q \in Procs : pc[q] = "idle"
                               /\ fallos = MaxFallos
         [] OTHER           -> \A q \in Procs : pc[q] = "idle"

Contar(modo) == IF modo = "conc" THEN ops - 1 ELSE ops

\* The call of p returns r.
Retorna(p, r) ==
    /\ pc' = [pc EXCEPT ![p] = "done"]
    /\ res' = [res EXCEPT ![p] = r]
    /\ ultimo' = IF r.op = "marcar"
                 THEN [UltimoIni EXCEPT !.op = "marcar", !.filas = r.filas]
                 ELSE IF r.op = "registrar" /\ r.ok
                 THEN [UltimoIni EXCEPT !.op = "registrar", !.id = r.id,
                                        !.inv = snap[p].inv]
                 ELSE UltimoIni

\* The caller has consumed the returned value.
Continuar(p) ==
    /\ pc[p] = "done"
    /\ pc' = [pc EXCEPT ![p] = "idle"]
    /\ loc' = [loc EXCEPT ![p] = LocIni]
    /\ res' = [res EXCEPT ![p] = ResIni]
    /\ snap' = [snap EXCEPT ![p] = SnapIni]
    /\ UNCHANGED <<ventas, detalle_ventas, devuelto, inv, rentas, detalles, config, now, penalizacion_dia,
                   ultimo, fallos, ops>>

\* datetime.now() advances.
Tick ==
    /\ now < MaxNow
    /\ \A q \in Procs : pc[q] = "idle"
    /\ now' = now + 1
    /\ ultimo' = IF ultimo.op = "marcar" THEN UltimoIni ELSE ultimo
    /\ UNCHANGED <<ventas, detalle_ventas, devuelto, inv, rentas, detalles, config, penalizacion_dia,
                   pc, loc, res, snap, fallos, ops>>

\* datetime.now() advances while calls are in progress.
Reloj ==
    /\ now < MaxNow
    /\ now' = now + 1
    /\ ultimo' = UltimoIni
    /\ UNCHANGED <<ventas, detalle_ventas, devuelto, inv, rentas, detalles, config, penalizacion_dia,
                   pc, loc, res, snap, fallos, ops>>

\* datetime.now() advances, over the longer horizon.
TickLargo ==
    /\ now < MaxNowLargo
    /\ \A q \in Procs : pc[q] = "idle"
    /\ now' = now + 1
    /\ ultimo' = IF ultimo.op = "marcar" THEN UltimoIni ELSE ultimo
    /\ UNCHANGED <<ventas, detalle_ventas, devuelto, inv, rentas, detalles, config, penalizacion_dia,
                   pc, loc, res, snap, fallos, ops>>

\* --------------------------------------------- descontar / aumentar steps
\* The value a ledger call hands back: to the caller of the operation when
\* it was called directly, to registrar_renta / devolver_renta and to
\* registrar_venta / cancelar_venta otherwise (all four only log a False, or
\* drop it, and go on with the next line).
FinStock(p, ok, msg, l) ==
    CASE l.op \in {"descontar", "aumentar"} ->
            /\ loc' = [loc EXCEPT ![p] = l]
            /\ Retorna(p, Resultado(l.op, ok, msg, l.ahora))
      [] l.op = "registrar" ->
            LET l2 == [l EXCEPT !.fallo_stock = l.fallo_stock \/ ~ok] IN
            IF l.i < Len(l.detalles)
            THEN /\ loc' = [loc EXCEPT ![p] = [l2 EXCEPT !.i = l.i + 1]]
                 /\ pc' = [pc EXCEPT ![p] = "det_read"]
                 /\ UNCHANGED <<res, ultimo>>
            ELSE /\ loc' = [loc EXCEPT ![p] = l2]
                 /\ Retorna(p, [Resultado("registrar", TRUE, "OK", l.ahora)
                                   EXCEPT !.id = l.nuevo_id])
      [] l.op = "devolver" ->
            LET l2 == [l EXCEPT !.fallo_stock = l.fallo_stock \/ ~ok] IN
            IF l.i < Len(l.dets)
            THEN /\ loc' = [loc EXCEPT ![p] = [l2 EXCEPT !.i = l.i + 1]]
                 /\ pc' = [pc EXCEPT ![p] = "aum_read"]
                 /\ UNCHANGED <<res, ultimo>>
            ELSE /\ loc' = [loc EXCEPT ![p] = l2]
                 /\ pc' = [pc EXCEPT ![p] = "dv_upd"]
                 /\ UNCHANGED <<res, ultimo>>
      [] l.op = "vender" ->
            LET l2 == [l EXCEPT !.fallo_stock = l.fallo_stock \/ ~ok] IN
            IF l.i < Len(l.detalles)
            THEN /\ loc' = [loc EXCEPT ![p] = [l2 EXCEPT !.i = l.i + 1]]
                 /\ pc' = [pc EXCEPT ![p] = "vd_ins"]
                 /\ UNCHANGED <<res, ultimo>>
            ELSE /\ loc' = [loc EXCEPT ![p] = l2]
                 /\ Retorna(p, [Resultado("vender", TRUE, "OK", l.ahora)
                                   EXCEPT !.id = l.nuevo_id])
      [] l.op = "cancelar" ->
            LET l2 == [l EXCEPT !.fallo_stock = l.fallo_stock \/ ~ok,
                                !.devueltas = IF ok THEN @ + l.dets[l.i].cantidad ELSE @] IN
            IF l.i < Len(l.dets)
            THEN /\ loc' = [loc EXCEPT ![p] = [l2 EXCEPT !.i = l.i + 1]]
                 /\ pc' = [pc EXCEPT ![p] = "aum_read"]
                 /\ UNCHANGED <<res, ultimo>>
            ELSE /\ loc' = [loc EXCEPT ![p] = l2]
                 /\ pc' = [pc EXCEPT ![p] = "cv_upd"]
                 /\ UNCHANGED <<res, ultimo>>

\* The line a nested ledger call works on.
LineaStock(l) ==
    CASE l.op \in {"registrar", "vender"} -> l.detalles[l.i]
      [] l.op \in {"devolver", "cancelar"} -> l.dets[l.i]
      [] OTHER -> [codigo_barras |-> l.codigo, cantidad |-> l.cantidad]

\* descontar_stock up to its UPDATE: buscar_por_codigo and the checks.
desc_read(p) ==
    /\ pc[p] = "desc_read"
    /\ \E ok \in Oks :
         LET ln  == LineaStock(loc[p])
             d   == buscar_por_codigo(ln.codigo_barras, ok)
             chk == descontar_chequeo(d, ln.cantidad)
             l   == [loc[p] EXCEPT !.fallo_bd = @ \/ ~ok]
         IN /\ fallos' = Gasto(ok)
            /\ IF chk = "OK"
               THEN /\ loc' = [loc EXCEPT ![p] =
                                 [l EXCEPT !.nuevo_disponible = d.Disponible - ln.cantidad]]
                    /\ pc' = [pc EXCEPT ![p] = "stock_write"]
                    /\ UNCHANGED <<res, ultimo>>
               ELSE FinStock(p, FALSE, chk, l)
    /\ UNCHANGED <<ventas, detalle_ventas, devuelto, inv, rentas, detalles, config, now, penalizacion_dia, snap, ops>>

\* aumentar_stock up to its UPDATE.
aum_read(p) ==
    /\ pc[p] = "aum_read"
    /\ \E ok \in Oks :
         LET ln  == LineaStock(loc[p])
             d   == buscar_por_codigo(ln.codigo_barras, ok)
             chk == aumentar_chequeo(d, ln.cantidad)
             l   == [loc[p] EXCEPT !.fallo_bd = @ \/ ~ok]
         IN /\ fallos' = Gasto(ok)
            /\ IF chk = "OK"
               THEN /\ loc' = [loc EXCEPT ![p] =
                                 [l EXCEPT !.nuevo_disponible = d.Disponible + ln.cantidad]]
                    /\ pc' = [pc EXCEPT ![p] = "stock_write"]
                    /\ UNCHANGED <<res, ultimo>>
               ELSE FinStock(p, FALSE, chk, l)
    /\ UNCHANGED <<ventas, detalle_ventas, devuelto, inv, rentas, detalles, config, now, penalizacion_dia, snap, ops>>

\* UPDATE INVENTARIO SET Disponible = nuevo_disponible, the last statement
\* of descontar_stock and of aumentar_stock.
stock_write(p) ==
    /\ pc[p] = "stock_write"
    /\ \E ok \in Oks :
         LET ln    == LineaStock(loc[p])
             filas == FilasDisponible(ln.codigo_barras, loc[p].nuevo_disponible, ok)
             l     == [loc[p] EXCEPT !.fallo_bd = @ \/ ~ok]
         IN /\ fallos' = Gasto(ok)
            /\ inv' = EscribirDisponible(ln.codigo_barras, loc[p].nuevo_disponible, ok)
            /\ IF filas # Ninguno /\ filas > 0
               THEN FinStock(p, TRUE, "OK", l)
               ELSE FinStock(p, FALSE, "NoActualizado", l)
    /\ UNCHANGED <<ventas, detalle_ventas, devuelto, rentas, detalles, config, now, penalizacion_dia, snap, ops>>

\* A direct call of InventarioController.descontar_stock(codigo, cantidad).
descontar_stock(p, modo) ==
    /\ PuedeLlamar(p, modo)
    /\ \E codigo \in Codigos \cup {CodigoAjeno}, cantidad \in 0..MaxCant :
         loc' = [loc EXCEPT ![p] = [LocIni EXCEPT !.op = "descontar",
                    !.codigo = codigo, !.cantidad = cantidad, !.ahora = now]]
    /\ pc' = [pc EXCEPT ![p] = "desc_read"]
    /\ snap' = [snap EXCEPT ![p] = Foto]
    /\ ops' = Contar(modo)
    /\ UNCHANGED <<ventas, detalle_ventas, devuelto, inv, rentas, detalles, config, now, penalizacion_dia,
                   res, ultimo, fallos>>

\* A direct call of InventarioController.aumentar_stock(codigo, cantidad).
aumentar_stock(p, modo) ==
    /\ PuedeLlamar(p, modo)
    /\ \E codigo \in Codigos \cup {CodigoAjeno}, cantidad \in 0..MaxCant :
         loc' = [loc EXCEPT ![p] = [LocIni EXCEPT !.op = "aumentar",
                    !.codigo = codigo, !.cantidad = cantidad, !.ahora = now]]
    /\ pc' = [pc EXCEPT ![p] = "aum_read"]
    /\ snap' = [snap EXCEPT ![p] = Foto]
    /\ ops' = Contar(modo)
    /\ UNCHANGED <<ventas, detalle_ventas, devuelto, inv, rentas, detalles, config, now, penalizacion_dia,
                   res, ultimo, fallos>>

\* A direct call of InventarioController.verificar_disponibilidad(codigo,
\* cantidad): one SELECT and the checks, nothing written.
consultar_disponibilidad(p, modo) ==
    /\ PuedeLlamar(p, modo)
    /\ \E codigo \in Codigos \cup {CodigoAjeno}, cantidad \in 0..(MaxCant + 1),
          ok \in Oks :
         LET v == verificar_disponibilidad(buscar_por_codigo(codigo, ok), cantidad)
         IN /\ fallos' = Gasto(ok)
            /\ loc' = [loc EXCEPT ![p] = [LocIni EXCEPT !.op = "verificar",
                          !.codigo = codigo, !.cantidad = cantidad, !.ahora = now,
                          !.fallo_bd = ~ok]]
            /\ Retorna(p, [Resultado("verificar", v.hay, v.msg, now) EXCEPT
                              !.disponible = v.disponible])
    /\ snap' = [snap EXCEPT ![p] = Foto]
    /\ ops' = Contar(modo)
    /\ UNCHANGED <<ventas, detalle_ventas, devuelto, inv, rentas, detalles, config, now, penalizacion_dia>>

\* -------------------------------------------------------- eliminar_disfraz
\* SELECT COUNT(*) FROM DETALLE_RENTAS WHERE Codigo_Barras = %s or the same
\* count over DETALLE_VENTAS is positive.
_disfraz_tiene_movimiento(codigo) ==
    \/ \E k \in 1..Len(detalles) : detalles[k].Codigo_Barras = codigo
    \/ \E k \in 1..Len(detalle_ventas) : detalle_ventas[k].Codigo_Barras = codigo

\* UPDATE INVENTARIO SET Estado = 'Inactivo' WHERE Codigo_Barras = %s
_cambiar_a_inactivo(codigo) ==
    [inv EXCEPT ![codigo].Estado = "Inactivo"]

\* DELETE FROM INVENTARIO WHERE Codigo_Barras = %s
_eliminar_disfraz_fisico(codigo) ==
    [inv EXCEPT ![codigo] = NoDisfraz]

\* InventarioController.eliminar_disfraz(codigo) over a store that answers,
\* up to its write: the item is looked up and its movement counted.
eliminar_disfraz(p, modo) ==
    /\ PuedeLlamar(p, modo)
    /\ fallos = 0
    /\ \E codigo \in Codigos \cup {CodigoAjeno} :
         LET d == buscar_por_codigo(codigo, TRUE)
         IN /\ loc' = [loc EXCEPT ![p] = [LocIni EXCEPT !.op = "eliminar",
                          !.codigo = codigo, !.ahora = now,
                          !.movimiento = _disfraz_tiene_movimiento(codigo)]]
            /\ IF ~d.existe
               THEN Retorna(p, Resultado("eliminar", FALSE, "NoEncontrado", now))
               ELSE /\ pc' = [pc EXCEPT ![p] = "el_escribir"]
                    /\ UNCHANGED <<res, ultimo>>
    /\ snap' = [snap EXCEPT ![p] = Foto]
    /\ ops' = Contar(modo)
    /\ UNCHANGED <<ventas, detalle_ventas, devuelto, inv, rentas, detalles, config, now, penalizacion_dia, fallos>>

\* The write of eliminar_disfraz: _cambiar_a_inactivo for an item counted
\* with movement (it looks the item up again, and its UPDATE reports no row
\* when the item already was inactive), _eliminar_disfraz_fisico otherwise.
\* The tables are taken as the code uses them, with no constraint between
\* INVENTARIO and DETALLE_RENTAS: the repository declares none.
el_escribir(p) ==
    /\ pc[p] = "el_escribir"
    /\ LET codigo == loc[p].codigo
           d      == buscar_por_codigo(codigo, TRUE)
       IN IF ~d.existe
          THEN /\ Retorna(p, Resultado("eliminar", FALSE,
                               IF loc[p].movimiento THEN "NoEncontrado"
                                                    ELSE "NoEliminado", loc[p].ahora))
               /\ UNCHANGED inv
          ELSE IF loc[p].movimiento
          THEN /\ inv' = _cambiar_a_inactivo(codigo)
               /\ IF esta_activo(d)
                  THEN Retorna(p, Resultado("eliminar", TRUE, "Inactivado", loc[p].ahora))
                  ELSE Retorna(p, Resultado("eliminar", FALSE, "NoActualizado", loc[p].ahora))
          ELSE /\ inv' = _eliminar_disfraz_fisico(codigo)
               /\ Retorna(p, Resultado("eliminar", TRUE, "Eliminado", loc[p].ahora))
    /\ UNCHANGED <<ventas, detalle_ventas, devuelto, rentas, detalles, config, now, penalizacion_dia, loc, snap,
                   fallos, ops>>

\* ---------------------------------------------------------- editar_disfraz
\* The rental prices an edit may set.
PreciosNuevos == {4}

\* The Stock values an edit may ask for.
StocksNuevos == (0 - 1)..MaxStock

\* A field of editar_disfraz: left None, or given with a value.
Dado(valores) == {<<FALSE, 0>>} \cup {<<TRUE, v>> : v \in valores}

\* InventarioController.editar_disfraz(codigo, precio_renta, stock), the
\* other fields left None: the item is looked up, a given price must be > 0,
\* a given stock must be >= 0 and >= Stock - Disponible of the row read, and
\* UPDATE INVENTARIO SET Precio_Renta = %s, Stock = %s writes the given
\* fields and nothing else; it reports a row only when a value changes.
editar_disfraz(p, modo) ==
    /\ PuedeLlamar(p, modo)
    /\ fallos = 0
    /\ \E codigo \in Codigos \cup {CodigoAjeno},
          precio \in Dado(PreciosNuevos \cup {0}),
          stock \in Dado(StocksNuevos) :
         LET d        == buscar_por_codigo(codigo, TRUE)
             rentados == d.Stock - d.Disponible
             fila     == [d EXCEPT !.Precio_Renta = IF precio[1] THEN precio[2] ELSE @,
                                   !.Stock = IF stock[1] THEN stock[2] ELSE @]
         IN /\ loc' = [loc EXCEPT ![p] = [LocIni EXCEPT !.op = "editar",
                          !.codigo = codigo, !.precio_renta = precio[2],
                          !.con_precio = precio[1], !.con_stock = stock[1],
                          !.stock = stock[2], !.ahora = now]]
            /\ IF ~d.existe
               THEN /\ Retorna(p, Resultado("editar", FALSE, "NoEncontrado", now))
                    /\ UNCHANGED inv
               ELSE IF precio[1] /\ precio[2] <= 0
               THEN /\ Retorna(p, Resultado("editar", FALSE, "PrecioInvalido", now))
                    /\ UNCHANGED inv
               ELSE IF stock[1] /\ stock[2] < 0
               THEN /\ Retorna(p, Resultado("editar", FALSE, "StockNegativo", now))
                    /\ UNCHANGED inv
               ELSE IF stock[1] /\ stock[2] < rentados
               THEN /\ Retorna(p, Resultado("editar", FALSE, "StockBajoRentados", now))
                    /\ UNCHANGED inv
               ELSE IF ~precio[1] /\ ~stock[1]
               THEN /\ Retorna(p, Resultado("editar", FALSE, "SinDatos", now))
                    /\ UNCHANGED inv
               ELSE /\ inv' = [inv EXCEPT ![codigo] = fila]
                    /\ IF fila # d
                       THEN Retorna(p, Resultado("editar", TRUE, "OK", now))
                       ELSE Retorna(p, Resultado("editar", FALSE, "SinCambios", now))
    /\ snap' = [snap EXCEPT ![p] = Foto]
    /\ ops' = Contar(modo)
    /\ UNCHANGED <<ventas, detalle_ventas, devuelto, rentas, detalles, config, now,
                   penalizacion_dia, fallos>>

\* ------------------------------------------------------- registrar_renta
ArgLinea ==
    {l \in [codigo_barras : Codigos \cup {CodigoAjeno}, cantidad : 0..MaxCant] :
        l.codigo_barras = "A" \/ l.cantidad = 1}

ArgDetalles == UNION {[1..n -> ArgLinea] : n \in 0..MaxLineas}

\* A basic validation that does not look at dias_renta.
_validar_datos_renta_basicos_sin_dias(id_cliente, id_usuario, dets, dias_renta, okC, okU) ==
    IF ~(okC /\ id_cliente \in Clientes) THEN "ClienteNoEncontrado"
    ELSE IF ~(okU /\ id_usuario \in Usuarios) THEN "UsuarioNoEncontrado"
    ELSE IF Len(dets) = 0 THEN "SinDetalles"
    ELSE "OK"

_validar_datos_renta_basicos(id_cliente, id_usuario, dets, dias_renta, okC, okU) ==
    IF ~(okC /\ id_cliente \in Clientes) THEN "ClienteNoEncontrado"
    ELSE IF ~(okU /\ id_usuario \in Usuarios) THEN "UsuarioNoEncontrado"
    ELSE IF Len(dets) = 0 THEN "SinDetalles"
    ELSE IF dias_renta <= 0 THEN "DiasInvalidos"
    ELSE "OK"

\* A line subtotal that forgets the number of days.
Subtotal_sin_dias(cantidad, precio_renta, dias_renta) == cantidad * precio_renta

Subtotal(cantidad, precio_renta, dias_renta) == cantidad * precio_renta * dias_renta

DepositoLinea(cantidad, precio_venta) == precio_venta * cantidad

\* A due date that forgets the rental period.
FechaDevolucion_sin_dias(ahora, dias_renta) == ahora

\* fecha_devolucion = ahora + timedelta(days=dias_renta)
FechaDevolucion(ahora, dias_renta) == ahora + dias_renta * TicksPorDia

\* The row INSERT INTO RENTAS writes.
NuevaRenta(l) ==
    [existe |-> TRUE, Id_Cliente |-> l.id_cliente, Id_Usuario |-> l.id_usuario,
     Fecha_Renta |-> l.ahora,
     Fecha_Devolucion |-> FechaDevolucion(l.ahora, l.dias_renta),
     Fecha_Devuelto |-> SinFecha, Penalizacion |-> 0,
     Dias_Renta |-> l.dias_renta, Total |-> l.total, Deposito |-> l.deposito,
     Estado |-> "Activa"]

\* The row INSERT INTO DETALLE_RENTAS writes.
NuevoDetalle(l) ==
    [Id_Renta |-> l.nuevo_id,
     Codigo_Barras |-> l.detalles[l.i].codigo_barras,
     Cantidad |-> l.detalles[l.i].cantidad,
     Precio_Unitario |-> l.precio_renta,
     Subtotal |-> Subtotal(l.detalles[l.i].cantidad, l.precio_renta, l.dias_renta)]

\* The dias_renta values and the clock horizon of a run: longer where a
\* single rental is followed ("largo").
DiasMax(modo)   == IF modo = "largo" THEN MaxDiasLargo ELSE MaxDias
Horizonte(modo) == IF modo = "largo" THEN MaxNowLargo ELSE MaxNow

\* registrar_renta calls that have not inserted their RENTAS row yet.
PorInsertar ==
    {q \in Procs : pc[q] \in {"reg_verif", "reg_precio", "reg_ins"}}

\* The call and its _validar_datos_renta_basicos.
registrar_renta(p, modo) ==
    /\ PuedeLlamar(p, modo)
    /\ Len(rentas) + Cardinality(PorInsertar) < MaxRentas
    /\ FechaDevolucion(now, DiasMax(modo)) <= Horizonte(modo)
    /\ \E id_cliente \in Clientes \cup {IdAjeno},
          id_usuario \in Usuarios \cup {IdAjeno},
          dets \in ArgDetalles,
          dias_renta \in 0..DiasMax(modo),
          okC \in Oks :
         \E okU \in IF okC THEN Oks ELSE {TRUE} :
           LET v == _validar_datos_renta_basicos(id_cliente, id_usuario, dets,
                                                 dias_renta, okC, okU)
               l == [LocIni EXCEPT !.op = "registrar", !.id_cliente = id_cliente,
                        !.id_usuario = id_usuario, !.detalles = dets,
                        !.dias_renta = dias_renta, !.ahora = now, !.i = 1]
           IN /\ fallos' = Gasto(okC /\ okU)
              /\ IF v = "OK"
                 THEN /\ loc' = [loc EXCEPT ![p] = l]
                      /\ pc' = [pc EXCEPT ![p] = "reg_verif"]
                      /\ UNCHANGED <<res, ultimo>>
                 ELSE /\ loc' = [loc EXCEPT ![p] = [LocIni EXCEPT !.op = "registrar"]]
                      /\ Retorna(p, Resultado("registrar", FALSE, v, now))
    /\ snap' = [snap EXCEPT ![p] = Foto]
    /\ ops' = Contar(modo)
    /\ UNCHANGED <<ventas, detalle_ventas, devuelto, inv, rentas, detalles, config, now, penalizacion_dia>>

\* First loop, line i: verificar_disponibilidad.
reg_verif(p) ==
    /\ pc[p] = "reg_verif"
    /\ \E ok \in Oks :
         LET ln == loc[p].detalles[loc[p].i]
             d  == buscar_por_codigo(ln.codigo_barras, ok)
             v  == verificar_disponibilidad(d, ln.cantidad)
         IN /\ fallos' = Gasto(ok)
            /\ IF v.hay
               THEN /\ pc' = [pc EXCEPT ![p] = "reg_precio"]
                    /\ UNCHANGED <<res, ultimo>>
               ELSE Retorna(p, Resultado("registrar", FALSE, v.msg, loc[p].ahora))
    /\ UNCHANGED <<ventas, detalle_ventas, devuelto, inv, rentas, detalles, config, now, penalizacion_dia,
                   loc, snap, ops>>

\* First loop, line i: buscar_por_codigo, price checks, total and deposit.
reg_precio(p) ==
    /\ pc[p] = "reg_precio"
    /\ \E ok \in Oks :
         LET l  == loc[p]
             ln == l.detalles[l.i]
             d  == buscar_por_codigo(ln.codigo_barras, ok)
             l2 == [l EXCEPT
                      !.total = @ + Subtotal(ln.cantidad, d.Precio_Renta, l.dias_renta),
                      !.deposito = @ + DepositoLinea(ln.cantidad, d.Precio_Venta)]
         IN /\ fallos' = Gasto(ok)
            /\ IF ~d.existe
               THEN /\ Retorna(p, Resultado("registrar", FALSE, "NoEncontrado", l.ahora))
                    /\ UNCHANGED loc
               ELSE IF d.Precio_Renta < 0
               THEN /\ Retorna(p, Resultado("registrar", FALSE, "PrecioRentaNegativo", l.ahora))
                    /\ UNCHANGED loc
               ELSE IF d.Precio_Venta < 0
               THEN /\ Retorna(p, Resultado("registrar", FALSE, "PrecioVentaNegativo", l.ahora))
                    /\ UNCHANGED loc
               ELSE IF l.i < Len(l.detalles)
               THEN /\ loc' = [loc EXCEPT ![p] = [l2 EXCEPT !.i = l.i + 1]]
                    /\ pc' = [pc EXCEPT ![p] = "reg_verif"]
                    /\ UNCHANGED <<res, ultimo>>
               ELSE /\ loc' = [loc EXCEPT ![p] = l2]
                    /\ pc' = [pc EXCEPT ![p] = "reg_ins"]
                    /\ UNCHANGED <<res, ultimo>>
    /\ UNCHANGED <<ventas, detalle_ventas, devuelto, inv, rentas, detalles, config, now, penalizacion_dia, snap, ops>>

\* INSERT INTO RENTAS.
reg_ins(p) ==
    /\ pc[p] = "reg_ins"
    /\ \E ok \in Oks :
         /\ fallos' = Gasto(ok)
         /\ IF ok
            THEN /\ rentas' = Append(rentas, NuevaRenta(loc[p]))
                 /\ loc' = [loc EXCEPT ![p].nuevo_id = Len(rentas) + 1, ![p].i = 1]
                 /\ pc' = [pc EXCEPT ![p] = "det_read"]
                 /\ UNCHANGED <<res, ultimo>>
            ELSE /\ Retorna(p, Resultado("registrar", FALSE, "ErrorRegistrar", loc[p].ahora))
                 /\ UNCHANGED <<rentas, loc>>
    /\ UNCHANGED <<ventas, detalle_ventas, devuelto, inv, detalles, config, now, penalizacion_dia, snap, ops>>

\* Second loop, line i: buscar_por_codigo for the price of the line.  A None
\* here raises on disfraz.precio_renta and the call ends in its except branch.
det_read(p) ==
    /\ pc[p] = "det_read"
    /\ \E ok \in Oks :
         LET l  == [loc[p] EXCEPT !.fallo_bd = @ \/ ~ok]
             ln == l.detalles[l.i]
             d  == buscar_por_codigo(ln.codigo_barras, ok)
         IN /\ fallos' = Gasto(ok)
            /\ IF d.existe
               THEN /\ loc' = [loc EXCEPT ![p] = [l EXCEPT !.precio_renta = d.Precio_Renta]]
                    /\ pc' = [pc EXCEPT ![p] = "det_ins"]
                    /\ UNCHANGED <<res, ultimo>>
               ELSE /\ loc' = [loc EXCEPT ![p] = l]
                    /\ Retorna(p, Resultado("registrar", FALSE, "ErrorInesperado", l.ahora))
    /\ UNCHANGED <<ventas, detalle_ventas, devuelto, inv, rentas, detalles, config, now, penalizacion_dia, snap, ops>>

\* Second loop, line i: INSERT INTO DETALLE_RENTAS; its result is not looked at.
det_ins(p) ==
    /\ pc[p] = "det_ins"
    /\ \E ok \in Oks :
         /\ fallos' = Gasto(ok)
         /\ detalles' = IF ok THEN Append(detalles, NuevoDetalle(loc[p])) ELSE detalles
         /\ loc' = [loc EXCEPT ![p].fallo_bd = @ \/ ~ok]
    /\ pc' = [pc EXCEPT ![p] = "desc_read"]
    /\ UNCHANGED <<ventas, detalle_ventas, devuelto, inv, rentas, config, now, penalizacion_dia, res, snap, ultimo, ops>>

\* -------------------------------------------------------- devolver_renta
\* Renta.from_db_row raises on a row its constructor rejects.
RentaValida(row) ==
    /\ row.Id_Cliente > 0
    /\ row.Id_Usuario > 0
    /\ row.Dias_Renta > 0
    /\ row.Total >= 0
    /\ row.Deposito >= 0
    /\ row.Penalizacion >= 0
    /\ row.Fecha_Devolucion > row.Fecha_Renta

\* SELECT * FROM RENTAS WHERE Id_Renta = %s
buscar_renta(id_renta, ok) ==
    IF ok /\ id_renta \in 1..Len(rentas) THEN rentas[id_renta] ELSE NoRenta

\* A state check that lets a returned rental through.
EstadoDevolvible_todos(estado) == estado \in {"Activa", "Vencida", "Devuelto"}

EstadoDevolvible(estado) == estado \in {"Activa", "Vencida"}

\* (False, "No se puede devolver una renta en estado '<estado>'", None)
RechazoEstado(estado, ahora) ==
    [Resultado("devolver", FALSE, "EstadoInvalido", ahora) EXCEPT !.estado = estado]

\* SELECT Codigo_Barras, Cantidad FROM DETALLE_RENTAS WHERE Id_Renta = %s
LineasDe(dets, id_renta) ==
    LET sel == SelectSeq(dets, LAMBDA d : d.Id_Renta = id_renta)
    IN [k \in 1..Len(sel) |->
          [codigo_barras |-> sel[k].Codigo_Barras, cantidad |-> sel[k].Cantidad]]

\* delta.days of (ahora - fecha_devolucion) when ahora is later, else 0.
dias_de_retraso(ahora, fecha_devolucion) ==
    IF ahora > fecha_devolucion
    THEN (ahora - fecha_devolucion) \div TicksPorDia
    ELSE 0

calcular_penalizacion(dias_retraso, por_dia) ==
    IF dias_retraso > 0 THEN por_dia * dias_retraso ELSE 0

\* A return that marks the rental Devuelto without its Fecha_Devuelto.
RentaDevuelta_sin_fecha(row, ahora, penalizacion) ==
    [row EXCEPT !.Penalizacion = penalizacion, !.Estado = "Devuelto"]

\* A return that stores the penalty and the date but leaves Estado alone.
RentaDevuelta_sin_estado(row, ahora, penalizacion) ==
    [row EXCEPT !.Fecha_Devuelto = ahora, !.Penalizacion = penalizacion]

\* A return that stores the penalty only for a rental the sweep had marked.
RentaDevuelta_solo_vencidas(row, ahora, penalizacion) ==
    [row EXCEPT !.Fecha_Devuelto = ahora,
                !.Penalizacion = IF row.Estado = "Vencida" THEN penalizacion ELSE 0,
                !.Estado = "Devuelto"]

\* The row UPDATE RENTAS SET Fecha_Devuelto, Penalizacion, Estado='Devuelto' leaves.
RentaDevuelta(row, ahora, penalizacion) ==
    [row EXCEPT !.Fecha_Devuelto = ahora, !.Penalizacion = penalizacion,
                !.Estado = "Devuelto"]

\* An info dict that nets the penalty against the deposit.
InfoDevolucion_neto(renta, dias_retraso, penalizacion) ==
    [dias_retraso      |-> dias_retraso,
     penalizacion      |-> penalizacion,
     deposito_devuelto |-> renta.Deposito - penalizacion]

\* The info dict of a successful return, built from the row read at the start.
InfoDevolucion(renta, dias_retraso, penalizacion) ==
    [dias_retraso      |-> dias_retraso,
     penalizacion      |-> penalizacion,
     deposito_devuelto |-> renta.Deposito]

\* The call, its SELECT of the rental and the state check.
devolver_renta(p, modo) ==
    /\ PuedeLlamar(p, modo)
    /\ \E id_renta \in (1..Len(rentas)) \cup {IdAjeno}, ok \in Oks :
         LET r == buscar_renta(id_renta, ok)
             l == [LocIni EXCEPT !.op = "devolver", !.id_renta = id_renta,
                      !.id_usuario = 1, !.renta = r, !.ahora = now, !.i = 1]
         IN /\ fallos' = Gasto(ok)
            /\ loc' = [loc EXCEPT ![p] = l]
            /\ IF ~r.existe
               THEN Retorna(p, Resultado("devolver", FALSE, "NoEncontrada", now))
               ELSE IF ~RentaValida(r)
               THEN Retorna(p, Resultado("devolver", FALSE, "ErrorInesperado", now))
               ELSE IF ~EstadoDevolvible(r.Estado)
               THEN Retorna(p, RechazoEstado(r.Estado, now))
               ELSE /\ pc' = [pc EXCEPT ![p] = "dv_dets"]
                    /\ UNCHANGED <<res, ultimo>>
    /\ snap' = [snap EXCEPT ![p] = Foto]
    /\ ops' = Contar(modo)
    /\ UNCHANGED <<ventas, detalle_ventas, devuelto, inv, rentas, detalles, config, now, penalizacion_dia>>

\* The SELECT of the lines; a failed query returns None and no line is released.
dv_dets(p) ==
    /\ pc[p] = "dv_dets"
    /\ \E ok \in Oks :
         LET dets == IF ok THEN LineasDe(detalles, loc[p].id_renta) ELSE <<>>
             l    == [loc[p] EXCEPT !.dets = dets, !.i = 1, !.fallo_bd = @ \/ ~ok]
         IN /\ fallos' = Gasto(ok)
            /\ loc' = [loc EXCEPT ![p] = l]
            /\ pc' = [pc EXCEPT ![p] = IF Len(dets) > 0 THEN "aum_read" ELSE "dv_upd"]
    /\ UNCHANGED <<ventas, detalle_ventas, devuelto, inv, rentas, detalles, config, now, penalizacion_dia,
                   res, snap, ultimo, ops>>

\* Days late, penalty, UPDATE RENTAS (its result is not looked at) and the
\* settlement handed back.
dv_upd(p) ==
    /\ pc[p] = "dv_upd"
    /\ \E ok \in Oks :
         LET l    == loc[p]
             dias == dias_de_retraso(l.ahora, l.renta.Fecha_Devolucion)
             pen  == calcular_penalizacion(dias, penalizacion_dia[p])
         IN /\ fallos' = Gasto(ok)
            /\ rentas' = IF ok
                         THEN [rentas EXCEPT ![l.id_renta] = RentaDevuelta(@, l.ahora, pen)]
                         ELSE rentas
            /\ loc' = [loc EXCEPT ![p].fallo_upd = ~ok]
            /\ Retorna(p, [Resultado("devolver", TRUE, "OK", l.ahora) EXCEPT
                              !.id = l.id_renta,
                              !.dias_retraso = InfoDevolucion(l.renta, dias, pen).dias_retraso,
                              !.penalizacion = InfoDevolucion(l.renta, dias, pen).penalizacion,
                              !.deposito_devuelto =
                                  InfoDevolucion(l.renta, dias, pen).deposito_devuelto])
    /\ UNCHANGED <<ventas, detalle_ventas, devuelto, inv, detalles, config, now, penalizacion_dia, snap, ops>>

\* ------------------------------------------------ marcar_rentas_vencidas
\* A sweep that also matches the rentals due exactly now.
Vencidas_hasta(rs, ahora) ==
    {k \in 1..Len(rs) : rs[k].Estado = "Activa" /\ rs[k].Fecha_Devolucion <= ahora}

\* A sweep that does not look at Estado.
Vencidas_sin_estado(rs, ahora) ==
    {k \in 1..Len(rs) : rs[k].Fecha_Devolucion < ahora}

\* A sweep that matches a rental only a whole day after its due date.
Vencidas_un_dia_despues(rs, ahora) ==
    {k \in 1..Len(rs) : /\ rs[k].Estado = "Activa"
                        /\ rs[k].Fecha_Devolucion + TicksPorDia < ahora}

\* The rows matched by WHERE Estado = 'Activa' AND Fecha_Devolucion < ahora.
Vencidas(rs, ahora) ==
    {k \in 1..Len(rs) : rs[k].Estado = "Activa" /\ rs[k].Fecha_Devolucion < ahora}

\* A sweep that also writes the penalty accrued so far on the rows it marks.
MarcarVencidas_con_penalizacion(rs, ahora) ==
    [k \in 1..Len(rs) |->
        IF k \in Vencidas(rs, ahora)
        THEN [rs[k] EXCEPT !.Estado = "Vencida",
                 !.Penalizacion = calcular_penalizacion(
                     dias_de_retraso(ahora, rs[k].Fecha_Devolucion), PenalizacionDefecto)]
        ELSE rs[k]]

\* UPDATE RENTAS SET Estado = 'Vencida' on the matched rows.
MarcarVencidas(rs, ahora) ==
    [k \in 1..Len(rs) |->
        IF k \in Vencidas(rs, ahora) THEN [rs[k] EXCEPT !.Estado = "Vencida"] ELSE rs[k]]

\* A row count that counts every overdue open rental, marked before or not.
FilasVencidas_abiertas(rs, ahora) ==
    Cardinality({k \in 1..Len(rs) : /\ rs[k].Estado \in {"Activa", "Vencida"}
                                     /\ rs[k].Fecha_Devolucion < ahora})

\* cursor.rowcount of that UPDATE: the rows it changed.
FilasVencidas(rs, ahora) ==
    Cardinality({k \in Vencidas(rs, ahora) : rs[k].Estado # "Vencida"})

marcar_rentas_vencidas(p, modo) ==
    /\ PuedeLlamar(p, modo)
    /\ \E ok \in Oks :
         LET filas == IF ok THEN FilasVencidas(rentas, now) ELSE Ninguno IN
         /\ fallos' = Gasto(ok)
         /\ rentas' = IF ok THEN MarcarVencidas(rentas, now) ELSE rentas
         /\ loc' = [loc EXCEPT ![p] = [LocIni EXCEPT !.op = "marcar", !.ahora = now,
                                                    !.fallo_bd = ~ok]]
         /\ Retorna(p, [Resultado("marcar", TRUE, "OK", now) EXCEPT
                           !.filas = IF filas = Ninguno THEN 0 ELSE filas])
    /\ snap' = [snap EXCEPT ![p] = Foto]
    /\ ops' = Contar(modo)
    /\ UNCHANGED <<ventas, detalle_ventas, devuelto, inv, detalles, config, now, penalizacion_dia>>

\* ------------------------------------------------------ initial states
\* The catalog as agregar_disfraz leaves it (Disponible = Stock, Activo), no
\* rental yet, controllers constructed (penalizacion_dia loaded from config).
InvInicial ==
    {[c \in Codigos |->
        [existe |-> TRUE, Stock |-> IF c = "A" THEN sa ELSE 1,
         Disponible |-> IF c = "A" THEN sa ELSE 1, Estado |-> "Activo",
         Precio_Renta |-> IF c = "A" THEN 3 ELSE 5,
         Precio_Venta |-> IF c = "A" THEN 8 ELSE 7]] : sa \in 1..MaxStock}

_cargar_penalizacion_config(cfg) ==
    IF cfg # Ninguno THEN cfg ELSE PenalizacionDefecto

\* ---------------------------------------------- actualizar_penalizacion_dia
\* The rates a caller may ask for.
Montos == {0 - 1, 20}

\* The row SELECT ... FROM CONFIGURACION ... LIMIT 1 returns, Ninguno when
\* there is none or the query failed.
FilaConfig(ok) == IF ok THEN config ELSE Ninguno

\* CONFIGURACION after the write of actualizar_penalizacion_dia: an UPDATE of
\* the row found, an INSERT when none was found.  When the SELECT failed on
\* an existing row the INSERT adds a second row (or is refused by a unique
\* key), and a later SELECT ... LIMIT 1 may return either.
EscribirConfig(monto, okS, okW) ==
    IF ~okW THEN {config}
    ELSE IF FilaConfig(okS) = Ninguno /\ config # Ninguno THEN {config, monto}
    ELSE {monto}

\* RentaController.actualizar_penalizacion_dia(monto), the whole call.
actualizar_penalizacion_dia(p, modo) ==
    /\ PuedeLlamar(p, modo)
    /\ \E monto \in Montos, okS \in Oks :
       \E okW \in IF okS THEN Oks ELSE {TRUE} :
         /\ loc' = [loc EXCEPT ![p] = [LocIni EXCEPT !.op = "actualizar",
                       !.monto = monto, !.ahora = now,
                       !.fallo_bd = ~(okS /\ okW)]]
         /\ IF monto < 0
            THEN /\ okS /\ okW
                 /\ Retorna(p, Resultado("actualizar", FALSE, "Negativa", now))
                 /\ UNCHANGED <<config, penalizacion_dia, fallos>>
            ELSE /\ fallos' = Gasto(okS /\ okW)
                 /\ \E escrito \in EscribirConfig(monto, okS, okW) :
                      /\ config' = escrito
                      /\ penalizacion_dia' = [penalizacion_dia EXCEPT ![p] = monto]
                 /\ Retorna(p, Resultado("actualizar", TRUE, "OK", now))
    /\ snap' = [snap EXCEPT ![p] = Foto]
    /\ ops' = Contar(modo)
    /\ UNCHANGED <<ventas, detalle_ventas, devuelto, inv, rentas, detalles, now>>

\* The same catalog when the row of "B" carries a negative price, written to
\* the table by another client of the database: agregar_disfraz and
\* editar_disfraz refuse such a price.
InvPrecios ==
    {[i EXCEPT !["B"].Precio_Renta = pr[1], !["B"].Precio_Venta = pr[2]] :
        i \in InvInicial, pr \in {<<0 - 1, 7>>, <<5, 0 - 1>>}}

InitDe(catalogos, f, o) ==
    /\ inv \in catalogos
    /\ rentas = <<>>
    /\ detalles = <<>>
    /\ config = Ninguno
    /\ ventas = <<>>
    /\ detalle_ventas = <<>>
    /\ devuelto = [v \in 1..MaxVentas |-> 0]
    /\ now = 0
    /\ penalizacion_dia = [p \in Procs |-> _cargar_penalizacion_config(config)]
    /\ pc = [p \in Procs |-> "idle"]
    /\ loc = [p \in Procs |-> LocIni]
    /\ res = [p \in Procs |-> ResIni]
    /\ snap = [p \in Procs |-> SnapIni]
    /\ ultimo = UltimoIni
    /\ fallos = f
    /\ ops = o

InitCon(f, o) == InitDe(InvInicial, f, o)

Init       == InitCon(0, 0)
InitFallos == InitCon(MaxFallos, 0)
InitConc   == InitCon(0, MaxOps)
\* One unit of "A" in stock: the sweep does not read the inventory.
InitBarrido == Init /\ inv["A"].Stock = 1
InitPrecios == InitDe(InvPrecios, 0, 0)
InitTarifa == InitFallos /\ inv["A"].Stock = 1

\* ------------------------------------------ registrar_venta / cancelar_venta
\* The rows of USUARIOS whose Rol is not 'admin'; the users of Usuarios are
\* administrators and IdAjeno is in no row.
Empleados == {2}

\* A role lookup that takes every user of USUARIOS for an administrator.
RolDe_sin_rol(id_usuario, ok) ==
    IF ~ok THEN "Ninguno"
    ELSE IF id_usuario \in Usuarios \cup Empleados THEN "admin"
    ELSE "Ninguno"

\* AuthController.obtener_usuario_por_id(id).rol, "Ninguno" when the lookup
\* gives no user.
RolDe(id_usuario, ok) ==
    IF ~ok THEN "Ninguno"
    ELSE IF id_usuario \in Usuarios THEN "admin"
    ELSE IF id_usuario \in Empleados THEN "empleado"
    ELSE "Ninguno"

NoVenta ==
    [existe |-> FALSE, Estado |-> "Ninguno", Total |-> 0,
     Cancelada_Por |-> Ninguno, detalles |-> <<>>]

\* SELECT * FROM DETALLE_VENTAS WHERE Id_Venta = %s
LineasDeVenta(id_venta) ==
    LET sel == SelectSeq(detalle_ventas, LAMBDA d : d.Id_Venta = id_venta)
    IN [k \in 1..Len(sel) |->
          [codigo_barras |-> sel[k].Codigo_Barras, cantidad |-> sel[k].Cantidad]]

\* The Venta with its lines, or nothing when the sale is not found or one of
\* the two SELECTs fails.
obtener_venta_completa(id_venta, ok) ==
    IF ok /\ id_venta \in 1..Len(ventas)
    THEN [existe |-> TRUE, Estado |-> ventas[id_venta].Estado,
          Total |-> ventas[id_venta].Total,
          Cancelada_Por |-> ventas[id_venta].Cancelada_Por,
          detalles |-> LineasDeVenta(id_venta)]
    ELSE NoVenta

RECURSIVE ProcesarDetalles(_, _)
\* The loop of registrar_venta over the lines: the first line that is
\* refused, else "OK".  ok is the answer of the store to the lookup of the
\* first line; the item's Estado is not looked at.
ProcesarDetalles(dets, ok) ==
    IF dets = <<>> THEN "OK"
    ELSE LET ln == Head(dets)
             d  == buscar_por_codigo(ln.codigo_barras, ok)
         IN IF ln.cantidad <= 0 THEN "DetalleInvalido"
            ELSE IF ~d.existe THEN "NoEncontrado"
            ELSE IF d.Disponible < ln.cantidad THEN "StockInsuficiente"
            ELSE IF d.Precio_Venta < 0 THEN "PrecioNegativo"
            ELSE ProcesarDetalles(Tail(dets), TRUE)

RECURSIVE TotalVenta(_)
\* total_venta: sum over the lines of cantidad * Precio_Venta.
TotalVenta(dets) ==
    IF dets = <<>> THEN 0
    ELSE Head(dets).cantidad * inv[Head(dets).codigo_barras].Precio_Venta
         + TotalVenta(Tail(dets))

\* The call, its early checks and its loop over the lines, which only reads.
\* sin_motivo: a discount was asked for without motivo_descuento.  id_cliente
\* and id_usuario are stored as passed and looked up nowhere.
registrar_venta(p, modo) ==
    /\ PuedeLlamar(p, modo)
    /\ Len(ventas) + Cardinality({q \in Procs : pc[q] = "vt_ins"}) < MaxVentas
    /\ \E dets \in ArgDetalles, sin_motivo \in BOOLEAN :
       \E ok \in IF ~sin_motivo /\ Len(dets) > 0 /\ dets[1].cantidad > 0
                 THEN Oks ELSE {TRUE} :
         LET v == IF sin_motivo THEN "DescuentoSinMotivo"
                  ELSE IF Len(dets) = 0 THEN "SinDetalles"
                  ELSE ProcesarDetalles(dets, ok)
         IN /\ fallos' = Gasto(ok)
            /\ IF v = "OK"
               THEN /\ loc' = [loc EXCEPT ![p] =
                                 [LocIni EXCEPT !.op = "vender", !.detalles = dets,
                                                !.total = TotalVenta(dets),
                                                !.ahora = now, !.i = 1]]
                    /\ pc' = [pc EXCEPT ![p] = "vt_ins"]
                    /\ UNCHANGED <<res, ultimo>>
               ELSE /\ loc' = [loc EXCEPT ![p] =
                                 [LocIni EXCEPT !.op = "vender", !.fallo_bd = ~ok]]
                    /\ Retorna(p, Resultado("vender", FALSE, v, now))
    /\ snap' = [snap EXCEPT ![p] = Foto]
    /\ ops' = Contar(modo)
    /\ UNCHANGED <<inv, rentas, detalles, config, ventas, detalle_ventas,
                   devuelto, now, penalizacion_dia>>

\* INSERT INTO VENTAS (..., Estado) VALUES (..., 'Activa'); without an id
\* the call ends.
vt_ins(p) ==
    /\ pc[p] = "vt_ins"
    /\ \E ok \in Oks :
         /\ fallos' = Gasto(ok)
         /\ IF ok
            THEN /\ ventas' = Append(ventas,
                                [Estado |-> "Activa", Total |-> loc[p].total,
                                 Cancelada_Por |-> Ninguno])
                 /\ loc' = [loc EXCEPT ![p].nuevo_id = Len(ventas) + 1]
                 /\ pc' = [pc EXCEPT ![p] = "vd_ins"]
                 /\ UNCHANGED <<res, ultimo>>
            ELSE /\ loc' = [loc EXCEPT ![p].fallo_bd = TRUE]
                 /\ Retorna(p, Resultado("vender", FALSE, "ErrorInsertar", loc[p].ahora))
                 /\ UNCHANGED ventas
    /\ UNCHANGED <<inv, rentas, detalles, config, detalle_ventas, devuelto, now,
                   penalizacion_dia, snap, ops>>

\* Line i: INSERT INTO DETALLE_VENTAS, its result not looked at, then
\* descontar_stock.
vd_ins(p) ==
    /\ pc[p] = "vd_ins"
    /\ \E ok \in Oks :
         LET l  == loc[p]
             ln == l.detalles[l.i]
         IN /\ fallos' = Gasto(ok)
            /\ detalle_ventas' =
                 IF ok
                 THEN Append(detalle_ventas,
                        [Id_Venta |-> l.nuevo_id, Codigo_Barras |-> ln.codigo_barras,
                         Cantidad |-> ln.cantidad,
                         Precio_Unitario |-> inv[ln.codigo_barras].Precio_Venta,
                         Subtotal |-> ln.cantidad * inv[ln.codigo_barras].Precio_Venta])
                 ELSE detalle_ventas
            /\ loc' = [loc EXCEPT ![p].fallo_bd = @ \/ ~ok]
            /\ pc' = [pc EXCEPT ![p] = "desc_read"]
    /\ UNCHANGED <<inv, rentas, detalles, config, ventas, devuelto, now,
                   penalizacion_dia, res, snap, ultimo, ops>>

\* VentaController.cancelar_venta(id_venta, id_usuario_admin, motivo) up to
\* its loop: the role of the user, the sale with its lines, its Estado.
cancelar_venta(p, modo) ==
    /\ PuedeLlamar(p, modo)
    /\ \E id_venta \in 1..MaxVentas,
          id_usuario_admin \in Usuarios \cup Empleados \cup {IdAjeno},
          okU \in Oks :
       \E okV \in IF okU /\ RolDe(id_usuario_admin, okU) = "admin"
                  THEN Oks ELSE {TRUE} :
         LET rol   == RolDe(id_usuario_admin, okU)
             venta == obtener_venta_completa(id_venta, okV)
             l     == [LocIni EXCEPT !.op = "cancelar", !.id_venta = id_venta,
                          !.id_usuario = id_usuario_admin, !.ahora = now,
                          !.dets = venta.detalles, !.i = 1,
                          !.fallo_bd = ~(okU /\ okV)]
         IN /\ fallos' = Gasto(okU /\ okV)
            /\ loc' = [loc EXCEPT ![p] = l]
            /\ IF rol # "admin"
               THEN Retorna(p, Resultado("cancelar", FALSE, "SoloAdmin", now))
               ELSE IF ~venta.existe
               THEN Retorna(p, Resultado("cancelar", FALSE, "NoEncontrada", now))
               ELSE IF venta.Estado # "Activa"
               THEN Retorna(p, [Resultado("cancelar", FALSE, "EstadoInvalido", now)
                                   EXCEPT !.estado = venta.Estado])
               ELSE /\ pc' = [pc EXCEPT ![p] =
                                IF Len(venta.detalles) > 0 THEN "aum_read" ELSE "cv_upd"]
                    /\ UNCHANGED <<res, ultimo>>
    /\ snap' = [snap EXCEPT ![p] = Foto]
    /\ ops' = Contar(modo)
    /\ UNCHANGED <<inv, rentas, detalles, config, ventas, detalle_ventas,
                   devuelto, now, penalizacion_dia>>

\* UPDATE VENTAS SET Estado = 'Cancelada', Cancelada_Por = %s ..., its
\* result not looked at, and the success handed back.
cv_upd(p) ==
    /\ pc[p] = "cv_upd"
    /\ \E ok \in Oks :
         LET l == loc[p]
         IN /\ fallos' = Gasto(ok)
            /\ ventas' = IF ok
                         THEN [ventas EXCEPT ![l.id_venta].Estado = "Cancelada",
                                             ![l.id_venta].Cancelada_Por = l.id_usuario]
                         ELSE ventas
            /\ devuelto' = [devuelto EXCEPT ![l.id_venta] = @ + l.devueltas]
            /\ loc' = [loc EXCEPT ![p].fallo_bd = @ \/ ~ok, ![p].fallo_upd = ~ok]
            /\ Retorna(p, Resultado("cancelar", TRUE, "OK", l.ahora))
    /\ UNCHANGED <<inv, rentas, detalles, config, detalle_ventas, now,
                   penalizacion_dia, snap, ops>>

\* ------------------------------------------------------------ behaviours
Pasos(p) ==
    \/ reg_verif(p)
    \/ reg_precio(p)
    \/ reg_ins(p)
    \/ det_read(p)
    \/ det_ins(p)
    \/ desc_read(p)
    \/ aum_read(p)
    \/ stock_write(p)
    \/ dv_dets(p)
    \/ dv_upd(p)
    \/ Continuar(p)

\* The rental lifecycle, one call at a time, issued by controller 1.
Next ==
    \/ registrar_renta(1, "sec")
    \/ devolver_renta(1, "sec")
    \/ marcar_rentas_vencidas(1, "sec")
    \/ Pasos(1)
    \/ Tick

\* Direct calls of the ledger, one at a time.
NextLedger ==
    \/ descontar_stock(1, "sec")
    \/ aumentar_stock(1, "sec")
    \/ desc_read(1)
    \/ aum_read(1)
    \/ stock_write(1)
    \/ Continuar(1)

\* Calls of the two controllers interleaved statement by statement.
NextConc ==
    \/ \E p \in Procs :
         \/ registrar_renta(p, "conc")
         \/ devolver_renta(p, "conc")
         \/ marcar_rentas_vencidas(p, "conc")
         \/ descontar_stock(p, "conc")
         \/ aumentar_stock(p, "conc")
         \/ Pasos(p)

\* The lifecycle over a store that may fail MaxFallos times.
NextFallos ==
    \/ registrar_renta(1, "fallos")
    \/ devolver_renta(1, "fallos")
    \/ marcar_rentas_vencidas(1, "fallos")
    \/ Pasos(1)
    \/ Tick

\* The lifecycle calls of controller 1 with the sweep run by controller 2
\* between any two of their statements, the clock running freely.
NextBarrido ==
    \/ registrar_renta(1, "sec")
    \/ devolver_renta(1, "sec")
    \/ marcar_rentas_vencidas(2, "tarea")
    \/ (pc[2] = "idle" /\ Pasos(1))
    \/ Continuar(2)
    \/ (pc[2] = "idle" /\ Reloj)

\* Registrations, returns, deletions of items, and direct calls of the
\* availability check and of the ledger, one at a time.
NextCatalogo ==
    \/ registrar_renta(1, "sec")
    \/ devolver_renta(1, "sec")
    \/ eliminar_disfraz(1, "sec")
    \/ el_escribir(1)
    \/ consultar_disponibilidad(1, "sec")
    \/ descontar_stock(1, "sec")
    \/ aumentar_stock(1, "sec")
    \/ Pasos(1)

\* One rental, registered by controller 1 and returned by either controller,
\* with rate updates by either controller and the sweep, over a store that
\* may fail.
NextTarifa ==
    \/ (Len(rentas) = 0 /\ registrar_renta(1, "fallos"))
    \/ \E p \in Procs : devolver_renta(p, "fallos")
    \/ \E p \in Procs : actualizar_penalizacion_dia(p, "fallos")
    \/ marcar_rentas_vencidas(1, "fallos")
    \/ \E p \in Procs : Pasos(p)
    \/ Tick

\* One registration by controller 1, statement by statement, with price edits
\* made through controller 2 between any two of those statements.
NextEdicion ==
    \/ (Len(rentas) = 0 /\ registrar_renta(1, "sec"))
    \/ (editar_disfraz(2, "tarea") /\ ~loc'[2].con_stock)
    \/ (pc[2] = "idle" /\ (\/ reg_verif(1)
                           \/ reg_precio(1)
                           \/ reg_ins(1)
                           \/ det_read(1)
                           \/ det_ins(1)
                           \/ desc_read(1)
                           \/ stock_write(1)
                           \/ Continuar(1)))
    \/ Continuar(2)

\* One registration by controller 1, statement by statement, with deletions
\* of items made through controller 2 interleaved with those statements.
NextBaja ==
    \/ (Len(rentas) = 0 /\ registrar_renta(1, "sec"))
    \/ eliminar_disfraz(2, "tarea")
    \/ el_escribir(2)
    \/ reg_verif(1)
    \/ reg_precio(1)
    \/ reg_ins(1)
    \/ det_read(1)
    \/ det_ins(1)
    \/ desc_read(1)
    \/ stock_write(1)
    \/ Continuar(1)
    \/ Continuar(2)

\* One rental followed from its registration to its return, over a longer
\* horizon and with longer rental periods.
NextLargo ==
    \/ (Len(rentas) = 0 /\ registrar_renta(1, "largo"))
    \/ devolver_renta(1, "sec")
    \/ Pasos(1)
    \/ TickLargo

Spec       == Init /\ [][Next]_vars
SpecLedger == InitFallos /\ [][NextLedger]_vars
SpecFallos == InitFallos /\ [][NextFallos]_vars
SpecConc   == InitConc /\ [][NextConc]_vars
SpecLargo  == Init /\ [][NextLargo]_vars
SpecCatalogo == Init /\ [][NextCatalogo]_vars
SpecPrecios == InitPrecios /\ [][Next]_vars
SpecTarifa == InitTarifa /\ [][NextTarifa]_vars
SpecEdicion == Init /\ [][NextEdicion]_vars
SpecBaja == Init /\ [][NextBaja]_vars
SpecBarrido == InitBarrido /\ [][NextBarrido]_vars

\* ======================================================================
\* Properties
\* ======================================================================
Hecho(p, op) == pc[p] = "done" /\ res[p].op = op

Reposo == \A p \in Procs : pc[p] = "idle"

Abierta(r) == r.Estado \in {"Activa", "Vencida"}

RECURSIVE CantidadEn(_, _, _)
\* Units of codigo in the lines of the rentals ids, over the rows ds.
CantidadEn(ds, ids, codigo) ==
    IF ds = <<>> THEN 0
    ELSE (IF Head(ds).Id_Renta \in ids /\ Head(ds).Codigo_Barras = codigo
          THEN Head(ds).Cantidad ELSE 0) + CantidadEn(Tail(ds), ids, codigo)

C2_ReservaAtomica ==
    /\ \A c \in Codigos : inv[c].Disponible >= 0
    /\ (/\ Hecho(1, "descontar") /\ Hecho(2, "descontar")
        /\ loc[1].codigo = loc[2].codigo /\ loc[1].codigo \in Codigos)
       => inv[loc[1].codigo].Disponible =
            inv[loc[1].codigo].Stock
              - (IF res[1].ok THEN loc[1].cantidad ELSE 0)
              - (IF res[2].ok THEN loc[2].cantidad ELSE 0)

\* C3 (as claimed): a registrar_renta that meets a store failure after its
\* RENTAS insert reports failure and leaves no header row, no line row and no
\* change of any Disponible.
C3_RegistrarTodoONada ==
    \A p \in Procs :
        (Hecho(p, "registrar") /\ loc[p].fallo_bd)
        => /\ ~res[p].ok
           /\ rentas = snap[p].rentas
           /\ detalles = snap[p].detalles
           /\ inv = snap[p].inv

\* The rental a finished devolver_renta was about has been marked Devuelto by it.
MarcadaDevuelta(p) ==
    /\ loc[p].id_renta \in 1..Len(rentas)
    /\ rentas[loc[p].id_renta].Estado = "Devuelto"
    /\ snap[p].rentas[loc[p].id_renta].Estado # "Devuelto"

\* C4 (as claimed): a devolver_renta in which a release or the header update
\* failed has changed no Disponible and no field of the rental; the rental is
\* marked Devuelto only with all its lines released, and nothing is released
\* unless it is marked Devuelto.
C4_DevolverTodoONada ==
    \A p \in Procs :
        Hecho(p, "devolver") =>
          /\ (loc[p].fallo_stock \/ loc[p].fallo_upd)
                => (inv = snap[p].inv /\ rentas = snap[p].rentas)
          /\ MarcadaDevuelta(p)
                => \A c \in Codigos :
                      inv[c].Disponible - snap[p].inv[c].Disponible
                         = CantidadEn(detalles, {loc[p].id_renta}, c)
          /\ ~MarcadaDevuelta(p) => inv = snap[p].inv

\* Ids of the open rentals.
AbiertasAhora == {k \in 1..Len(rentas) : Abierta(rentas[k])}

\* C5 (as claimed): with only registrar_renta, devolver_renta and
\* marcar_rentas_vencidas running, whenever no call is in progress
\* Stock - Disponible of every item is the number of its units in the lines
\* of the open rentals.
C5_DisponibleEsStockMenosRentado ==
    Reposo =>
      \A c \in Codigos :
         inv[c].Stock - inv[c].Disponible = CantidadEn(detalles, AbiertasAhora, c)

\* C6 (as claimed): a successful registrar_renta followed, with no call in
\* between, by devolver_renta of that rental before its due date gives
\* dias_retraso = 0, penalizacion = 0, deposito_devuelto = the deposit, and
\* every Disponible back at its value before the registration.
C6_IdaYVuelta ==
    \A p \in Procs :
       (/\ Hecho(p, "devolver") /\ res[p].ok
        /\ snap[p].ultimo.op = "registrar"
        /\ snap[p].ultimo.id = loc[p].id_renta
        /\ res[p].ahora < loc[p].renta.Fecha_Devolucion)
       => /\ res[p].dias_retraso = 0
          /\ res[p].penalizacion = 0
          /\ res[p].deposito_devuelto = snap[p].rentas[loc[p].id_renta].Deposito
          /\ \A c \in Codigos :
                inv[c].Disponible = snap[p].ultimo.inv[c].Disponible

Transicion(a, b) ==
    \/ a = b
    \/ a = "Activa"  /\ b \in {"Vencida", "Devuelto"}
    \/ a = "Vencida" /\ b = "Devuelto"

\* C7: in every step no RENTAS row disappears, a new row is Activa, and the
\* Estado of an existing row stays or moves Activa -> Vencida,
\* Activa -> Devuelto or Vencida -> Devuelto (so Devuelto is final and
\* Vencida never returns to Activa).
C7_MaquinaDeEstados ==
    [][ /\ Len(rentas') >= Len(rentas)
        /\ \A k \in 1..Len(rentas) : Transicion(rentas[k].Estado, rentas'[k].Estado)
        /\ \A k \in (Len(rentas) + 1)..Len(rentas') : rentas'[k].Estado = "Activa"
      ]_vars

\* C7 witness: a sweep has just run at an instant at which one rental was
\* already Devuelto and overdue by date, and another is Vencida.
C7_Testigo ==
    /\ Hecho(1, "marcar")
    /\ \E k \in 1..Len(rentas) :
          rentas[k].Estado = "Devuelto" /\ rentas[k].Fecha_Devolucion < res[1].ahora
    /\ \E k \in 1..Len(rentas) : rentas[k].Estado = "Vencida"

\* States other than Devuelto that devolver_renta would refuse.
OtrosEstados == {"Cancelada", "Ninguno", ""}

C9_BarridoExacto ==
    \A p \in Procs :
       Hecho(p, "marcar") =>
         LET antes == snap[p].rentas
             ahora == res[p].ahora
         IN /\ Len(rentas) = Len(antes)
            /\ \A k \in 1..Len(antes) :
                  IF antes[k].Estado = "Activa" /\ antes[k].Fecha_Devolucion < ahora
                  THEN rentas[k] = [antes[k] EXCEPT !.Estado = "Vencida"]
                  ELSE rentas[k] = antes[k]
            /\ res[p].filas =
                 Cardinality({k \in 1..Len(antes) : rentas[k].Estado # antes[k].Estado})

\* C9 witness: a sweep marked a rental and left Activa one due exactly now.
C9_Testigo ==
    /\ Hecho(1, "marcar")
    /\ res[1].filas >= 1
    /\ \E k \in 1..Len(rentas) :
          rentas[k].Estado = "Activa" /\ rentas[k].Fecha_Devolucion = res[1].ahora

\* C10: a marcar_rentas_vencidas that runs right after another one, at the
\* same instant and with nothing in between, changes no row and returns 0.
C10_BarridoIdempotente ==
    \A p \in Procs :
       (Hecho(p, "marcar") /\ snap[p].ultimo.op = "marcar")
       => (rentas = snap[p].rentas /\ res[p].filas = 0)

\* C10 witness: the second of two sweeps in a row, the first of which marked
\* a rental.
C10_Testigo ==
    /\ Hecho(1, "marcar")
    /\ snap[1].ultimo.op = "marcar"
    /\ snap[1].ultimo.filas > 0

\* The step in which controller p runs marcar_rentas_vencidas.
PasoMarcar(p) == pc[p] = "idle" /\ pc'[p] = "done" /\ res'[p].op = "marcar"

\* C11: a marcar_rentas_vencidas step changes nothing but the Estado of
\* RENTAS rows: Penalizacion, Deposito, Total, Fecha_Devolucion,
\* Fecha_Devuelto and every other column of every rental, every
\* DETALLE_RENTAS row, every Disponible and Stock, the configured penalty
\* rate and the rate held by each controller stay as they were.
C11_BarridoSoloEstado ==
    [][ \A p \in Procs :
          PasoMarcar(p) =>
            /\ inv' = inv
            /\ detalles' = detalles
            /\ config' = config
            /\ penalizacion_dia' = penalizacion_dia
            /\ Len(rentas') = Len(rentas)
            /\ \A k \in 1..Len(rentas) :
                  [rentas'[k] EXCEPT !.Estado = rentas[k].Estado] = rentas[k]
      ]_vars

\* C11 witness: a sweep has marked a rental that is a whole day late, with
\* its units still out of stock.
C11_Testigo ==
    /\ Hecho(1, "marcar")
    /\ res[1].filas >= 1
    /\ \E k \in 1..Len(rentas) :
          /\ rentas[k].Estado = "Vencida"
          /\ dias_de_retraso(res[1].ahora, rentas[k].Fecha_Devolucion) >= 1
          /\ rentas[k].Penalizacion = 0
    /\ \E c \in Codigos : inv[c].Disponible < inv[c].Stock

\* C12: with marcar_rentas_vencidas run by another controller between any
\* two statements of registrar_renta / devolver_renta: a sweep step writes
\* nothing but Estado, and only Activa -> Vencida (inventory and rental
\* lines, so reservations and released stock, are not touched; a Devuelto
\* row is never changed again by any step); a devolver_renta that reports
\* success leaves its rental Devuelto with the Fecha_Devuelto it read, and a
\* registrar_renta that reports success leaves its rental Activa or Vencida.
C12_BarridoIntercalado ==
    [][ /\ PasoMarcar(2) =>
             /\ inv' = inv /\ detalles' = detalles
             /\ Len(rentas') = Len(rentas)
             /\ \A k \in 1..Len(rentas) :
                   /\ [rentas'[k] EXCEPT !.Estado = rentas[k].Estado] = rentas[k]
                   /\ rentas'[k].Estado # rentas[k].Estado
                        => (rentas[k].Estado = "Activa" /\ rentas'[k].Estado = "Vencida")
        /\ \A k \in 1..Len(rentas) :
              rentas[k].Estado = "Devuelto" => rentas'[k] = rentas[k]
        /\ (pc'[1] = "done" /\ res'[1].op = "devolver" /\ res'[1].ok)
             => /\ rentas'[res'[1].id].Estado = "Devuelto"
                /\ rentas'[res'[1].id].Fecha_Devuelto = res'[1].ahora
        /\ (pc'[1] = "done" /\ res'[1].op = "registrar" /\ res'[1].ok)
             => Abierta(rentas'[res'[1].id])
      ]_vars

\* C12 witness: devolver_renta read its rental as Activa and has released
\* its lines, the sweep has marked the rental Vencida since, and the UPDATE
\* of the return comes next.
C12_Testigo ==
    /\ pc[1] = "dv_upd"
    /\ loc[1].renta.Estado = "Activa"
    /\ rentas[loc[1].id_renta].Estado = "Vencida"
    /\ Len(loc[1].dets) > 0 /\ ~loc[1].fallo_stock

RECURSIVE CantidadPedida(_, _)
\* Units of codigo asked for in the detalles list passed to registrar_renta.
CantidadPedida(dets, codigo) ==
    IF dets = <<>> THEN 0
    ELSE (IF Head(dets).codigo_barras = codigo THEN Head(dets).cantidad ELSE 0)
         + CantidadPedida(Tail(dets), codigo)

\* No item code appears in two lines of the list.
SinRepetidos(dets) ==
    \A i, j \in 1..Len(dets) :
        i # j => dets[i].codigo_barras # dets[j].codigo_barras

\* C13 (as claimed): when registrar_renta reports success, the Disponible of
\* every item is its value before the call minus the units requested for it
\* over all the lines, and no Stock has changed.
C13_ReservaEfectiva ==
    \A p \in Procs :
       (Hecho(p, "registrar") /\ res[p].ok)
       => \A c \in Codigos :
             /\ inv[c].Disponible =
                  snap[p].inv[c].Disponible - CantidadPedida(loc[p].detalles, c)
             /\ inv[c].Stock = snap[p].inv[c].Stock

RECURSIVE TotalDe(_, _, _)
\* Sum over the lines of cantidad * Precio_Renta * dias, at the prices of catalog.
TotalDe(dets, catalog, dias) ==
    IF dets = <<>> THEN 0
    ELSE Head(dets).cantidad * catalog[Head(dets).codigo_barras].Precio_Renta * dias
         + TotalDe(Tail(dets), catalog, dias)

RECURSIVE DepositoDe(_, _)
\* Sum over the lines of cantidad * Precio_Venta, at the prices of catalog.
DepositoDe(dets, catalog) ==
    IF dets = <<>> THEN 0
    ELSE Head(dets).cantidad * catalog[Head(dets).codigo_barras].Precio_Venta
         + DepositoDe(Tail(dets), catalog)

\* C14: when registrar_renta reports success, the RENTAS row it made has
\* Total = sum over the requested lines of cantidad * Precio_Renta *
\* dias_renta and Deposito = sum of cantidad * Precio_Venta, at the catalog
\* prices of the moment of the call, and each DETALLE_RENTAS row of the
\* rental carries Precio_Unitario = Precio_Renta and Subtotal = cantidad *
\* Precio_Renta * dias_renta.
C14_TotalYDeposito ==
    \A p \in Procs :
       (Hecho(p, "registrar") /\ res[p].ok)
       => LET r == rentas[res[p].id]
              l == loc[p]
          IN /\ r.Total = TotalDe(l.detalles, snap[p].inv, l.dias_renta)
             /\ r.Deposito = DepositoDe(l.detalles, snap[p].inv)
             /\ r.Dias_Renta = l.dias_renta
             /\ \A k \in 1..Len(detalles) :
                   detalles[k].Id_Renta = res[p].id
                   => LET c == detalles[k].Codigo_Barras IN
                      /\ detalles[k].Precio_Unitario = snap[p].inv[c].Precio_Renta
                      /\ detalles[k].Subtotal =
                           detalles[k].Cantidad * snap[p].inv[c].Precio_Renta * l.dias_renta

\* C14 witness: a rental of two units of one item and one of another, for
\* more than one day, has been registered.
C14_Testigo ==
    /\ Hecho(1, "registrar") /\ res[1].ok
    /\ loc[1].dias_renta >= 2
    /\ \E i, j \in 1..Len(loc[1].detalles) :
          /\ loc[1].detalles[i].codigo_barras # loc[1].detalles[j].codigo_barras
          /\ loc[1].detalles[i].cantidad = 2
    /\ rentas[res[1].id].Deposito > rentas[res[1].id].Total

\* max(0, floor((instante - vence) / one day)), in clock ticks.
DiasCompletos(vence, instante) ==
    IF instante - vence > 0 THEN (instante - vence) \div TicksPorDia ELSE 0

\* C15 (as claimed): when devolver_renta reports success, dias_retraso is the
\* number of whole days from Fecha_Devolucion to the instant of the return
\* (0 if not later), penalizacion is dias_retraso times the rate per day,
\* that penalty is stored on the rental, and the Disponible of every item
\* has grown by the units of it in the lines of the rental.
C15_RetrasoYPenalizacion ==
    \A p \in Procs :
       (Hecho(p, "devolver") /\ res[p].ok)
       => LET id   == loc[p].id_renta
              dias == DiasCompletos(snap[p].rentas[id].Fecha_Devolucion, res[p].ahora)
          IN /\ res[p].dias_retraso = dias
             /\ res[p].penalizacion = dias * penalizacion_dia[p]
             /\ rentas[id].Penalizacion = res[p].penalizacion
             /\ \A c \in Codigos :
                   inv[c].Disponible =
                     snap[p].inv[c].Disponible + CantidadEn(detalles, {id}, c)

\* C16: when devolver_renta reports success, however late, deposito_devuelto
\* is the whole Deposito stored on the rental (the penalty is reported apart
\* and not subtracted), and the stored Deposito and Total of the rental are
\* what they were before the call.
C16_DepositoIntegro ==
    \A p \in Procs :
       (Hecho(p, "devolver") /\ res[p].ok)
       => LET id == loc[p].id_renta
          IN /\ res[p].deposito_devuelto = snap[p].rentas[id].Deposito
             /\ rentas[id].Deposito = snap[p].rentas[id].Deposito
             /\ rentas[id].Total = snap[p].rentas[id].Total

\* A return two days late or more whose penalty exceeds the deposit returned.
C16_Testigo ==
    /\ Hecho(1, "devolver") /\ res[1].ok
    /\ res[1].dias_retraso >= 2
    /\ res[1].penalizacion > res[1].deposito_devuelto
    /\ res[1].deposito_devuelto > 0
    /\ rentas[res[1].id].Penalizacion = res[1].penalizacion

\* The row of codigo in catalog, NoDisfraz when there is none.
FilaEn(catalog, codigo) ==
    IF codigo \in DOMAIN catalog THEN catalog[codigo] ELSE NoDisfraz

\* The error of a line against catalog: "OK" when the item exists, is
\* active, the quantity is positive and does not exceed its Disponible.
ErrorDeLinea(catalog, ln) ==
    LET d == FilaEn(catalog, ln.codigo_barras)
    IN IF ~d.existe THEN "NoEncontrado"
       ELSE IF d.Estado # "Activo" THEN "Inactivo"
       ELSE IF ln.cantidad <= 0 THEN "CantidadInvalida"
       ELSE IF d.Disponible < ln.cantidad THEN "StockInsuficiente"
       ELSE "OK"

\* The position of the first line of dets in error, 0 when there is none.
PrimeraEnError(catalog, dets) ==
    IF \E i \in 1..Len(dets) : ErrorDeLinea(catalog, dets[i]) # "OK"
    THEN CHOOSE i \in 1..Len(dets) :
            /\ ErrorDeLinea(catalog, dets[i]) # "OK"
            /\ \A j \in 1..(i - 1) : ErrorDeLinea(catalog, dets[j]) = "OK"
    ELSE 0

\* C17: when registrar_renta has passed its basic validation and some line
\* of the list, at any position, fails the availability check, the call
\* fails with the error of the first such line, and RENTAS, DETALLE_RENTAS
\* and the whole inventory are what they were before the call, the lines
\* before the failing one having reserved nothing.
C17_ValidarAntesDeReservar ==
    \A p \in Procs :
       (/\ Hecho(p, "registrar")
        /\ PrimeraEnError(snap[p].inv, loc[p].detalles) > 0)
       => LET k == PrimeraEnError(snap[p].inv, loc[p].detalles)
          IN /\ ~res[p].ok
             /\ res[p].msg = ErrorDeLinea(snap[p].inv, loc[p].detalles[k])
             /\ rentas = snap[p].rentas
             /\ detalles = snap[p].detalles
             /\ inv = snap[p].inv

\* A registration refused for its second line, an inactive item, after its
\* first line passed the check.
C17_Testigo ==
    /\ Hecho(1, "registrar") /\ ~res[1].ok
    /\ Len(loc[1].detalles) = 2
    /\ PrimeraEnError(snap[1].inv, loc[1].detalles) = 2
    /\ res[1].msg = "Inactivo"
    /\ inv = snap[1].inv

\* registrar_renta returned from its basic validation: nothing of the call
\* is kept but its name.
DetenidaEnBasicos(p) == loc[p] = [LocIni EXCEPT !.op = "registrar"]

\* The stored row of the item of ln has a negative price.
PrecioNegativo(catalog, ln) ==
    LET d == FilaEn(catalog, ln.codigo_barras)
    IN d.existe /\ (d.Precio_Renta < 0 \/ d.Precio_Venta < 0)

RechazadaSinCambios(p) ==
    /\ ~res[p].ok
    /\ rentas = snap[p].rentas
    /\ detalles = snap[p].detalles
    /\ \A c \in Codigos : inv[c].Disponible = snap[p].inv[c].Disponible

\* C18: a registrar_renta that has returned either stopped at its basic
\* validation, and then it failed and changed nothing, or was called with a
\* known customer, a known clerk, a non-empty list and dias_renta > 0 (so a
\* call with an unknown customer or clerk, an empty list or dias_renta <= 0
\* always stops there); and a call whose list has a line of quantity <= 0 or
\* a line for an item whose stored rental or sale price is negative failed
\* and left RENTAS, DETALLE_RENTAS and every Disponible unchanged.
C18_EntradasInvalidas ==
    \A p \in Procs :
       Hecho(p, "registrar")
       => /\ DetenidaEnBasicos(p) => RechazadaSinCambios(p)
          /\ ~DetenidaEnBasicos(p)
             => /\ loc[p].id_cliente \in Clientes
                /\ loc[p].id_usuario \in Usuarios
                /\ Len(loc[p].detalles) > 0
                /\ loc[p].dias_renta > 0
          /\ (\E i \in 1..Len(loc[p].detalles) :
                 \/ loc[p].detalles[i].cantidad <= 0
                 \/ PrecioNegativo(snap[p].inv, loc[p].detalles[i]))
             => RechazadaSinCambios(p)

\* A registration refused for its second line, an item with a negative
\* price, after a first line that is in order.
C18_Testigo ==
    /\ Hecho(1, "registrar")
    /\ Len(loc[1].detalles) = 2
    /\ ErrorDeLinea(snap[1].inv, loc[1].detalles[1]) = "OK"
    /\ ~PrecioNegativo(snap[1].inv, loc[1].detalles[1])
    /\ PrecioNegativo(snap[1].inv, loc[1].detalles[2])
    /\ RechazadaSinCambios(1)

TarifaPersistida == _cargar_penalizacion_config(config)

\* C22 (as claimed): after every call of actualizar_penalizacion_dia,
\* accepted, rejected or met by a failure of the store, the in-memory rate
\* of the controller that made it equals the persisted rate; a negative
\* rate is rejected; and a call that reports success has set both the
\* persisted value and the in-memory rate to the rate asked for.
C22_TarifaEnMemoriaYPersistida ==
    \A p \in Procs :
       Hecho(p, "actualizar")
       => /\ penalizacion_dia[p] = TarifaPersistida
          /\ loc[p].monto < 0 => ~res[p].ok
          /\ res[p].ok => (config = loc[p].monto /\ penalizacion_dia[p] = loc[p].monto)

\* C23 (as claimed): over a store that has answered every statement, once a
\* rate has been persisted by a successful actualizar_penalizacion_dia on
\* some controller, a devolver_renta that succeeds on any controller
\* afterwards reports the penalty dias_retraso times that rate.
C23_TarifaCompartida ==
    \A p \in Procs :
       (/\ Hecho(p, "devolver") /\ res[p].ok
        /\ fallos = MaxFallos
        /\ snap[p].config # Ninguno)
       => res[p].penalizacion = res[p].dias_retraso * snap[p].config

RECURSIVE SubtotalesDe(_, _)
\* Sum of the Subtotal of the persisted lines of rental id.
SubtotalesDe(ds, id) ==
    IF ds = <<>> THEN 0
    ELSE (IF Head(ds).Id_Renta = id THEN Head(ds).Subtotal ELSE 0)
         + SubtotalesDe(Tail(ds), id)

\* No registration is between its first and its last statement.
SinRegistroEnCurso ==
    \A p \in Procs : loc[p].op = "registrar" => pc[p] \in {"idle", "done"}

\* C24 (as claimed): whenever no registration is in progress, the Total of
\* every rental is the sum of the Subtotal of its persisted lines, and the
\* Subtotal of every line is Cantidad * its Precio_Unitario * the Dias_Renta
\* of its rental, whatever price edits were made during the registration
\* or after it.
C24_TotalEsSumaDeLineas ==
    SinRegistroEnCurso
    => /\ \A k \in 1..Len(rentas) : rentas[k].Total = SubtotalesDe(detalles, k)
       /\ \A j \in 1..Len(detalles) :
             detalles[j].Subtotal =
                detalles[j].Cantidad * detalles[j].Precio_Unitario
                   * rentas[detalles[j].Id_Renta].Dias_Renta

\* C25: in every state a rental in Estado Devuelto has its Fecha_Devuelto
\* set, and a rental in Estado Activa or Vencida has it unset.
C25_FechaDevueltoSegunEstado ==
    \A k \in 1..Len(rentas) :
       /\ rentas[k].Estado = "Devuelto" => rentas[k].Fecha_Devuelto # SinFecha
       /\ rentas[k].Estado \in {"Activa", "Vencida"} => rentas[k].Fecha_Devuelto = SinFecha

\* One rental returned, after the sweep had marked it overdue, next to one
\* still open.
C25_Testigo ==
    /\ Len(rentas) = 2
    /\ rentas[1].Estado = "Devuelto" /\ rentas[1].Fecha_Devuelto > rentas[1].Fecha_Devolucion
    /\ rentas[2].Estado \in {"Activa", "Vencida"}
    /\ Reposo

\* C26: in every state a rental in Estado Activa or Vencida has Penalizacion
\* 0, however long past its Fecha_Devolucion; a Penalizacion above 0 is found
\* on rentals in Estado Devuelto only.
C26_PenalizacionSoloDevueltas ==
    \A k \in 1..Len(rentas) :
       /\ rentas[k].Estado \in {"Activa", "Vencida"} => rentas[k].Penalizacion = 0
       /\ rentas[k].Penalizacion > 0 => rentas[k].Estado = "Devuelto"

\* At the end of the horizon: one rental returned late with its penalty,
\* next to one a whole day past due, still out and without any.
C26_Testigo ==
    /\ Len(rentas) = 2
    /\ rentas[1].Estado = "Devuelto" /\ rentas[1].Penalizacion > 0
    /\ rentas[2].Estado \in {"Activa", "Vencida"}
    /\ now - rentas[2].Fecha_Devolucion >= TicksPorDia
    /\ rentas[2].Penalizacion = 0
    /\ Reposo

\* Number of persisted lines of rental id.
LineasPersistidas(id) ==
    Cardinality({j \in 1..Len(detalles) : detalles[j].Id_Renta = id})

\* C27 (as claimed): a devolver_renta that reports success has stored the
\* rental as Devuelto with the Fecha_Devuelto and the Penalizacion it
\* reports, and never reports success when its UPDATE of RENTAS failed; a
\* registrar_renta that reports success has stored the header it names and
\* one line for every line of the list.
C27_ExitoImplicaPersistido ==
    \A p \in Procs :
       /\ (Hecho(p, "devolver") /\ res[p].ok)
          => /\ ~loc[p].fallo_upd
             /\ rentas[res[p].id].Estado = "Devuelto"
             /\ rentas[res[p].id].Fecha_Devuelto = res[p].ahora
             /\ rentas[res[p].id].Penalizacion = res[p].penalizacion
       /\ (Hecho(p, "registrar") /\ res[p].ok)
          => /\ res[p].id \in 1..Len(rentas)
             /\ LineasPersistidas(res[p].id) = Len(loc[p].detalles)

C29_FechasFijas ==
    [][ /\ \A k \in 1..Len(rentas) :
              /\ k <= Len(rentas')
              /\ rentas'[k].Fecha_Renta = rentas[k].Fecha_Renta
              /\ rentas'[k].Fecha_Devolucion = rentas[k].Fecha_Devolucion
              /\ rentas'[k].Dias_Renta = rentas[k].Dias_Renta
        /\ \A k \in (Len(rentas) + 1)..Len(rentas') :
              /\ rentas'[k].Fecha_Devolucion =
                    rentas'[k].Fecha_Renta + rentas'[k].Dias_Renta * TicksPorDia
              /\ rentas'[k].Fecha_Devolucion > rentas'[k].Fecha_Renta
      ]_vars

\* A rental registered after the clock had moved and returned past its due
\* date, a rate update having been persisted, with its dates as registered.
C29_Testigo ==
    /\ Len(rentas) = 1
    /\ rentas[1].Estado = "Devuelto"
    /\ rentas[1].Fecha_Devuelto > rentas[1].Fecha_Devolucion
    /\ config # Ninguno
    /\ rentas[1].Fecha_Renta > 0
    /\ rentas[1].Fecha_Devolucion = rentas[1].Fecha_Renta + rentas[1].Dias_Renta * TicksPorDia

\* ------------------------------------------------------------------- sales
\* Sales and their cancellations, one call at a time, over a store that may
\* fail MaxFallos times.
NextVentas ==
    \/ registrar_venta(1, "sec")
    \/ cancelar_venta(1, "sec")
    \/ vt_ins(1)
    \/ vd_ins(1)
    \/ desc_read(1)
    \/ aum_read(1)
    \/ stock_write(1)
    \/ cv_upd(1)
    \/ Continuar(1)

SpecVentas == InitFallos /\ [][NextVentas]_vars

RECURSIVE UnidadesVendidas(_, _, _)
\* Units of the items codigos in the persisted lines of sale id.
UnidadesVendidas(ds, id, codigos) ==
    IF ds = <<>> THEN 0
    ELSE (IF Head(ds).Id_Venta = id /\ Head(ds).Codigo_Barras \in codigos
          THEN Head(ds).Cantidad ELSE 0) + UnidadesVendidas(Tail(ds), id, codigos)

\* A cancelar_venta call of p has returned; the sale it named existed when
\* the call started.
CancelacionTerminada(p) ==
    /\ pc[p] = "done"
    /\ res[p].op = "cancelar"
    /\ loc[p].id_venta \in 1..Len(snap[p].ventas)

\* C30 (as claimed): a cancelar_venta asked by an administrator for a sale
\* that was Activa succeeds whenever the store answered, and when it reports
\* success the sale is Cancelada and the Disponible of every item is what it
\* was plus the units of that item in the sale; a cancelar_venta for a sale
\* that was not Activa fails and leaves the inventory as it was; and no sale
\* ever has more units put back into stock than its lines hold.
C30_CancelarVenta ==
    /\ \A p \in Procs :
         CancelacionTerminada(p) =>
           LET id    == loc[p].id_venta
               antes == snap[p]
           IN /\ (antes.ventas[id].Estado = "Activa" /\ loc[p].id_usuario \in Usuarios) =>
                   /\ ~loc[p].fallo_bd => res[p].ok
                   /\ res[p].ok =>
                        /\ ventas[id].Estado = "Cancelada"
                        /\ \A c \in Codigos :
                             inv[c].Disponible =
                               antes.inv[c].Disponible
                                 + UnidadesVendidas(detalle_ventas, id, {c})
              /\ antes.ventas[id].Estado # "Activa" =>
                   /\ ~res[p].ok
                   /\ inv = antes.inv
    /\ \A v \in 1..Len(ventas) :
         devuelto[v] <= UnidadesVendidas(detalle_ventas, v, Codigos)

\* C31: a cancelar_venta asked by a user who is in no row of USUARIOS, or
\* whose Rol is not 'admin', fails, and leaves VENTAS, the lines of the sales
\* and the Disponible of every item as they were when the call started.
C31_CancelarSoloAdmin ==
    \A p \in Procs :
      (/\ pc[p] = "done"
       /\ res[p].op = "cancelar"
       /\ loc[p].id_usuario \notin Usuarios) =>
        /\ ~res[p].ok
        /\ res[p].msg = "SoloAdmin"
        /\ ventas = snap[p].ventas
        /\ \A c \in Codigos : inv[c].Disponible = snap[p].inv[c].Disponible

\* An employee or an unknown user has been refused the cancellation of a
\* sale that is Activa and holds a unit taken from stock.
C31_Testigo ==
    \E p \in Procs :
      /\ pc[p] = "done"
      /\ res[p].op = "cancelar"
      /\ res[p].msg = "SoloAdmin"
      /\ loc[p].id_usuario \in Empleados \cup {IdAjeno}
      /\ loc[p].id_venta \in 1..Len(ventas)
      /\ ventas[loc[p].id_venta].Estado = "Activa"
      /\ UnidadesVendidas(detalle_ventas, loc[p].id_venta, Codigos) > 0
      /\ \E c \in Codigos : inv[c].Disponible < inv[c].Stock

RECURSIVE StockTrasDevolver(_, _)
\* The catalog after the lines have been put back one by one, each line
\* alone against Stock; the Estado of the rental is not an argument.
StockTrasDevolver(catalog, lineas) ==
    IF lineas = <<>> THEN catalog
    ELSE LET ln == Head(lineas)
             d  == FilaEn(catalog, ln.codigo_barras)
         IN StockTrasDevolver(
              IF aumentar_chequeo(d, ln.cantidad) = "OK"
              THEN [catalog EXCEPT ![ln.codigo_barras].Disponible = @ + ln.cantidad]
              ELSE catalog,
              Tail(lineas))

\* C32: what a successful devolver_renta hands back and leaves behind is
\* fixed by the dates and the deposit of the rental, the instant of the
\* return, the rate per day and the inventory before the call, and by
\* nothing else: it is the same for a rental that was Activa and for one the
\* sweep had marked Vencida.  Two rentals with the same due date returned at
\* the same instant carry the same penalty.
C32_LiquidacionSinBarrido ==
    /\ \A p \in Procs :
         (Hecho(p, "devolver") /\ res[p].ok) =>
           LET id    == loc[p].id_renta
               antes == snap[p].rentas[id]
               dias  == DiasCompletos(antes.Fecha_Devolucion, res[p].ahora)
           IN /\ antes.Estado \in {"Activa", "Vencida"}
              /\ res[p].dias_retraso = dias
              /\ res[p].penalizacion = dias * penalizacion_dia[p]
              /\ res[p].deposito_devuelto = antes.Deposito
              /\ rentas[id] = [antes EXCEPT !.Estado = "Devuelto",
                                            !.Fecha_Devuelto = res[p].ahora,
                                            !.Penalizacion = dias * penalizacion_dia[p]]
              /\ inv = StockTrasDevolver(snap[p].inv, LineasDe(detalles, id))
    /\ \A i, j \in 1..Len(rentas) :
         (/\ rentas[i].Estado = "Devuelto"
          /\ rentas[j].Estado = "Devuelto"
          /\ rentas[i].Fecha_Devolucion = rentas[j].Fecha_Devolucion
          /\ rentas[i].Fecha_Devuelto = rentas[j].Fecha_Devuelto)
         => rentas[i].Penalizacion = rentas[j].Penalizacion

\* A rental the sweep had marked Vencida has been returned a day late, and
\* another rental with the same due date, returned at the same instant,
\* carries the same positive penalty.
C32_Testigo ==
    \E p \in Procs :
      /\ Hecho(p, "devolver") /\ res[p].ok
      /\ snap[p].rentas[loc[p].id_renta].Estado = "Vencida"
      /\ res[p].dias_retraso > 0
      /\ res[p].penalizacion > 0
      /\ \E j \in 1..Len(rentas) :
           /\ j # loc[p].id_renta
           /\ snap[p].rentas[j].Estado = "Devuelto"
           /\ rentas[j].Fecha_Devolucion = rentas[loc[p].id_renta].Fecha_Devolucion
           /\ rentas[j].Fecha_Devuelto = res[p].ahora
           /\ rentas[j].Penalizacion = res[p].penalizacion

\* Registrations, returns and deletions of items, one call at a time.
NextRetiro ==
    \/ registrar_renta(1, "sec")
    \/ devolver_renta(1, "sec")
    \/ eliminar_disfraz(1, "sec")
    \/ el_escribir(1)
    \/ reg_verif(1)
    \/ reg_precio(1)
    \/ reg_ins(1)
    \/ det_read(1)
    \/ det_ins(1)
    \/ desc_read(1)
    \/ aum_read(1)
    \/ stock_write(1)
    \/ dv_dets(1)
    \/ dv_upd(1)
    \/ Continuar(1)

SpecRetiro == Init /\ [][NextRetiro]_vars

\* The items in the lines of rental id that were Inactivo in catalog.
InactivosDe(catalog, id) ==
    {c \in Codigos : /\ catalog[c].existe
                     /\ catalog[c].Estado = "Inactivo"
                     /\ CantidadEn(detalles, {id}, c) > 0}

\* C33 (as claimed): a devolver_renta of an open rental some of whose items
\* have been made Inactivo by eliminar_disfraz succeeds, and the Disponible
\* of each such item has grown by the units of it in the lines of the rental.
C33_DevolverInactivo ==
    \A p \in Procs :
      (/\ Hecho(p, "devolver")
       /\ loc[p].id_renta \in 1..Len(snap[p].rentas)
       /\ Abierta(snap[p].rentas[loc[p].id_renta])
       /\ InactivosDe(snap[p].inv, loc[p].id_renta) # {}) =>
        /\ res[p].ok
        /\ \A c \in InactivosDe(snap[p].inv, loc[p].id_renta) :
             inv[c].Disponible =
               snap[p].inv[c].Disponible + CantidadEn(detalles, {loc[p].id_renta}, c)

\* Rentals registered by controller 1 while nothing else runs, and returns
\* asked of both controllers, their statements interleaved freely.
NextDevolucionDoble ==
    \/ registrar_renta(1, "sec")
    \/ reg_verif(1)
    \/ reg_precio(1)
    \/ reg_ins(1)
    \/ det_read(1)
    \/ det_ins(1)
    \/ desc_read(1)
    \/ \E p \in Procs :
         \/ (loc[1].op # "registrar" /\ devolver_renta(p, "tarea"))
         \/ dv_dets(p)
         \/ aum_read(p)
         \/ stock_write(p)
         \/ dv_upd(p)
         \/ Continuar(p)

SpecDevolucionDoble == Init /\ [][NextDevolucionDoble]_vars

\* The smaller of two numbers.
Menor(a, b) == IF a <= b THEN a ELSE b

\* C34 (as claimed): when both controllers have finished a devolver_renta of
\* the same rental, at most one of them reports success, and the Disponible
\* of every item is at most what it was when the first of the two calls
\* started plus the units of it in the lines of the rental.
C34_DevolucionUnaVez ==
    \A p, q \in Procs :
      (/\ p # q
       /\ Hecho(p, "devolver") /\ Hecho(q, "devolver")
       /\ loc[p].id_renta = loc[q].id_renta
       /\ loc[p].id_renta \in 1..Len(rentas)) =>
        /\ ~(res[p].ok /\ res[q].ok)
        /\ \A c \in Codigos :
             inv[c].Disponible <=
               Menor(snap[p].inv[c].Disponible, snap[q].inv[c].Disponible)
                 + CantidadEn(detalles, {loc[p].id_renta}, c)

\* C35 (as claimed): a registrar_renta that reports success was given, for
\* every item, lines whose quantities add up to no more than the Disponible
\* of the item before the call, and leaves a Disponible that is not negative
\* and is lower than before by that sum.
C35_LineasRepetidas ==
    \A p \in Procs :
      (Hecho(p, "registrar") /\ res[p].ok) =>
        \A c \in Codigos :
          /\ CantidadPedida(loc[p].detalles, c) <= snap[p].inv[c].Disponible
          /\ inv[c].Disponible >= 0
          /\ inv[c].Disponible =
               snap[p].inv[c].Disponible - CantidadPedida(loc[p].detalles, c)

\* One rental, its return, and edits of the stock of the items, one call at
\* a time.
NextInventario ==
    \/ (Len(rentas) = 0 /\ registrar_renta(1, "sec"))
    \/ devolver_renta(1, "sec")
    \/ (editar_disfraz(1, "sec") /\ ~loc'[1].con_precio)
    \/ Pasos(1)

SpecInventario == Init /\ [][NextInventario]_vars

\* C36 (as claimed): an editar_disfraz given a stock below the units out
\* (Stock - Disponible) of the item is refused and writes nothing, and after
\* an editar_disfraz that was given a stock and reports success the item has
\* 0 <= Disponible <= Stock.
C36_EditarStock ==
    \A p \in Procs :
      (/\ Hecho(p, "editar")
       /\ loc[p].con_stock
       /\ loc[p].codigo \in Codigos
       /\ snap[p].inv[loc[p].codigo].existe) =>
        LET c     == loc[p].codigo
            antes == snap[p].inv[c]
        IN /\ loc[p].stock < antes.Stock - antes.Disponible =>
                (~res[p].ok /\ inv = snap[p].inv)
           /\ res[p].ok =>
                (0 <= inv[c].Disponible /\ inv[c].Disponible <= inv[c].Stock)

\* The lifecycle calls of controller 1 with the sweep run by controller 2
\* between any two of their statements, the clock advancing between calls.
NextVivo ==
    \/ registrar_renta(1, "sec")
    \/ devolver_renta(1, "sec")
    \/ marcar_rentas_vencidas(2, "tarea")
    \/ (pc[2] = "idle" /\ Pasos(1))
    \/ Continuar(2)
    \/ Tick

\* Those behaviours in which the sweep is invoked again and again:
\* controller 2 starts a sweep whenever it is free, and takes its result.
SpecVivo ==
    /\ InitBarrido
    /\ [][NextVivo]_vars
    /\ WF_vars(marcar_rentas_vencidas(2, "tarea"))
    /\ WF_vars(Continuar(2))

\* Rental id is Activa and its due date has passed.
ActivaVencida(id) ==
    /\ id \in 1..Len(rentas)
    /\ rentas[id].Estado = "Activa"
    /\ rentas[id].Fecha_Devolucion < now

====
